---- MODULE Spec2Model ----
(***************************************************************************)
(* Model of scrapagroprecios.py: the scrapers' record assembly, the        *)
(* per-retailer orchestration and main()'s incremental sync against the    *)
(* monthly Google Sheets book.                                             *)
(*                                                                         *)
(* Text is modelled as sequences of one-character strings.  An accented    *)
(* letter is written as the letter followed by an apostrophe ("e'").       *)
(***************************************************************************)
EXTENDS Integers, Sequences, FiniteSets, TLC

(***************************************************************************)
(* 1. Text utilities                                                       *)
(***************************************************************************)
Lowers == <<"a","b","c","d","e","f","g","h","i","j","k","l","m",
            "n","o","p","q","r","s","t","u","v","w","x","y","z">>
Uppers == <<"A","B","C","D","E","F","G","H","I","J","K","L","M",
            "N","O","P","Q","R","S","T","U","V","W","X","Y","Z">>
AccLowers == <<"a'","e'","i'","o'","u'">>
AccUppers == <<"A'","E'","I'","O'","U'">>
PlainLowers == <<"a","e","i","o","u">>
PlainUppers == <<"A","E","I","O","U">>
DigitChars == {"0","1","2","3","4","5","6","7","8","9"}

Range(f) == {f[i] : i \in DOMAIN f}

MapTable(from, to, c) ==
    IF \E i \in DOMAIN from : from[i] = c
    THEN to[CHOOSE i \in DOMAIN from : from[i] = c]
    ELSE c

AllLowers == Lowers \o AccLowers
AllUppers == Uppers \o AccUppers
AllAccented == AccLowers \o AccUppers
AllPlain == PlainLowers \o PlainUppers

\* str.lower() / str.upper(), one character
LowerChar(c) == MapTable(AllUppers, AllLowers, c)
UpperChar(c) == MapTable(AllLowers, AllUppers, c)

\* NFD decomposition with the combining marks removed, one character
StripAccentChar(c) == MapTable(AllAccented, AllPlain, c)

\* the members of a pair or a triple
First(t) == Head(t)
Second(t) == Head(Tail(t))
Third(t) == Head(Tail(Tail(t)))

MapSeq(Op(_), s) == [i \in DOMAIN s |-> Op(s[i])]

lower(s) == MapSeq(LowerChar, s)
upper(s) == MapSeq(UpperChar, s)
strip_accents(s) == MapSeq(StripAccentChar, s)
normalize_text(s) == lower(strip_accents(s))

\* str.capitalize(): first character upper-cased, the rest lower-cased
capitalize(s) == [i \in DOMAIN s |-> IF i = 1 THEN UpperChar(s[i]) ELSE LowerChar(s[i])]

\* \w of the re module
WordChars == Range(AllLowers) \cup Range(AllUppers) \cup DigitChars \cup {"_"}
IsWordChar(c) == c \in WordChars
IsSpaceChar(c) == c = " "

\* is position p (between d[p-1] and d[p]) a \b boundary
WordAt(d, i) == i \in DOMAIN d /\ IsWordChar(d[i])
Boundary(d, p) == WordAt(d, p - 1) # WordAt(d, p)

\* does the literal w occur in d starting at index i
OccursAt(d, w, i) ==
    /\ i >= 1
    /\ i + Len(w) - 1 <= Len(d)
    /\ \A k \in 1..Len(w) : d[i + k - 1] = w[k]

\* `w in d`
Contains(d, w) == \E i \in 1..(Len(d) + 1) : OccursAt(d, w, i)

\* re.search(r"\bw\b", d)
ContainsWord(d, w) ==
    \E i \in 1..(Len(d) + 1) :
        /\ OccursAt(d, w, i)
        /\ Boundary(d, i)
        /\ Boundary(d, i + Len(w))

(***************************************************************************)
(* 2. Group / subgroup classification                                      *)
(***************************************************************************)
gVerduras == <<"V","e","r","d","u","r","a","s">>
gHuevos == <<"H","u","e","v","o","s">>
gLacteos == <<"L","a","c","t","e","o","s">>
gBebidas == <<"B","e","b","i","d","a","s">>
gFrutas == <<"F","r","u","t","a","s">>
sCebolla == <<"C","e","b","o","l","l","a">>
sMorron == <<"M","o","r","r","o","n">>
sBanana == <<"B","a","n","a","n","a">>
kCebolla == <<"c","e","b","o","l","l","a">>
kMorron == <<"m","o","r","r","o","n">>
kLocote == <<"l","o","c","o","t","e">>
kPimiento == <<"p","i","m","i","e","n","t","o">>
kPimenton == <<"p","i","m","e","n","t","o","n">>
kBanana == <<"b","a","n","a","n","a">>
kBanano == <<"b","a","n","a","n","o">>
kPlatano == <<"p","l","a","t","a","n","o">>
kGuineo == <<"g","u","i","n","e","o">>
sJugo == <<"J","u","g","o">>
kJugo == <<"j","u","g","o">>
kZumo == <<"z","u","m","o">>
kNectar == <<"n","e","c","t","a","r">>
sTomate == <<"T","o","m","a","t","e">>
sPapa == <<"P","a","p","a">>
sGallina == <<"H","u","e","v","o"," ","G","a","l","l","i","n","a">>
sCodorniz == <<"H","u","e","v","o"," ","C","o","d","o","r","n","i","z">>
kTomate == <<"t","o","m","a","t","e">>
kPerita == <<"p","e","r","i","t","a">>
kCherry == <<"c","h","e","r","r","y">>
kPapa == <<"p","a","p","a">>
kPatata == <<"p","a","t","a","t","a">>
kHuevo == <<"h","u","e","v","o">>
kHuevos == <<"h","u","e","v","o","s">>
kDocena == <<"d","o","c","e","n","a">>
kMediaDocena == <<"m","e","d","i","a"," ","d","o","c","e","n","a">>
kCodorniz == <<"c","o","d","o","r","n","i","z">>
kLeche == <<"l","e","c","h","e">>

\* The (group, subgroup, keywords) entries of TAXONOMY in declaration order;
\* the model keeps the entries listed here.
TAXONOMY ==
    << [g |-> gVerduras, s |-> sTomate,   pats |-> <<kTomate, kPerita, kCherry>>],
       [g |-> gVerduras, s |-> sCebolla,  pats |-> <<kCebolla>>],
       [g |-> gVerduras, s |-> sPapa,     pats |-> <<kPapa, kPatata>>],
       [g |-> gVerduras, s |-> sMorron,   pats |-> <<kMorron, kLocote, kPimiento, kPimenton>>],
       [g |-> gFrutas,   s |-> sBanana,   pats |-> <<kBanana, kBanano, kPlatano, kGuineo>>],
       [g |-> gHuevos,   s |-> sGallina,  pats |-> <<kHuevo, kHuevos, kDocena, kMediaDocena>>],
       [g |-> gHuevos,   s |-> sCodorniz, pats |-> <<kCodorniz>>],
       [g |-> gBebidas,  s |-> sJugo,     pats |-> <<kJugo, kZumo, kNectar>>] >>

SumSeq(f) ==
    LET RECURSIVE Go(_)
        Go(i) == IF i = 0 THEN 0 ELSE f[i] + Go(i - 1)
    IN Go(Len(f))

\* score of one (group, subgroup) pair for the normalized name d
PairScore(e, d) ==
    SumSeq([i \in DOMAIN e.pats |->
              IF ContainsWord(d, e.pats[i]) THEN 3
              ELSE IF Contains(d, e.pats[i]) THEN 1 ELSE 0])
    + (IF e.g = gLacteos /\ Contains(d, kLeche) THEN 1 ELSE 0)
    + (IF e.g = gHuevos /\ (Contains(d, kDocena) \/ Contains(d, kHuevo)) THEN 1 ELSE 0)

\* a scan in which a pair replaces the best on an equal score too
BestPairLast(d) ==
    LET RECURSIVE Scan(_, _)
        Scan(i, best) ==
            IF i > Len(TAXONOMY) THEN best
            ELSE LET sc == PairScore(TAXONOMY[i], d)
                 IN IF sc >= best.score
                    THEN Scan(i + 1, [g |-> TAXONOMY[i].g, s |-> TAXONOMY[i].s, score |-> sc])
                    ELSE Scan(i + 1, best)
    IN Scan(1, [g |-> <<>>, s |-> <<>>, score |-> 0])

\* the scan of lines 267-282: a pair replaces the best only on a strictly higher score
BestPair(d) ==
    LET RECURSIVE Scan(_, _)
        Scan(i, best) ==
            IF i > Len(TAXONOMY) THEN best
            ELSE LET sc == PairScore(TAXONOMY[i], d)
                 IN IF sc > best.score
                    THEN Scan(i + 1, [g |-> TAXONOMY[i].g, s |-> TAXONOMY[i].s, score |-> sc])
                    ELSE Scan(i + 1, best)
    IN Scan(1, [g |-> <<>>, s |-> <<>>, score |-> 0])

\* lines 284-288: first group with any keyword occurring as a substring
FallbackGroup(d) ==
    LET hits == {i \in DOMAIN TAXONOMY :
                    \E k \in DOMAIN TAXONOMY[i].pats : Contains(d, TAXONOMY[i].pats[k])}
    IN IF hits = {} THEN <<>>
       ELSE TAXONOMY[CHOOSE i \in hits : \A j \in hits : i <= j].g

classify_group_subgroup(name) ==
    LET d == normalize_text(name)
        b == BestPair(d)
    IN IF b.g = <<>> THEN <<FallbackGroup(d), b.s>> ELSE <<b.g, b.s>>

(***************************************************************************)
(* 2.2 Freshness tag.  A regex alternative is the sequence of its words,   *)
(* which the regex joins by \s+; "x[oa]" and "(\s+de)?" are written out.   *)
(***************************************************************************)
EXCLUSIONES_GENERALES ==
    << <<<<"e","x","t","r","a","c","t","o">>>>,
       <<<<"j","u","g","o">>>>,
       <<<<"s","a","b","o","r">>>>,
       <<<<"p","u","l","p","a">>>>,
       <<<<"p","u","r","e">>>>,
       <<<<"s","a","l","s","a">>>>,
       <<<<"l","a","t","a">>>>,
       <<<<"e","n">>, <<"c","o","n","s","e","r","v","a">>>>,
       <<<<"e","n","c","u","r","t","i","d","o">>>>,
       <<<<"e","n","c","u","r","t","i","d","a">>>>,
       <<<<"c","o","n","g","e","l","a","d","o">>>>,
       <<<<"c","o","n","g","e","l","a","d","a">>>>,
       <<<<"d","e","s","h","i","d","r","a","t","a","d","o">>>>,
       <<<<"d","e","s","h","i","d","r","a","t","a","d","a">>>>,
       <<<<"p","a","t","e">>>>,
       <<<<"m","e","r","m","e","l","a","d","a">>>>,
       <<<<"c","h","i","p","s">>>>,
       <<<<"s","n","a","c","k">>>>,
       <<<<"p","o","l","v","o">>>>,
       <<<<"h","u","m","o">>>> >>

TOMATE_EXC ==
    << <<<<"a","r","r","o","z">>, <<"c","o","n">>, <<"t","o","m","a","t","e">>>>,
       <<<<"e","n">>, <<"t","o","m","a","t","e">>>>,
       <<<<"s","a","l","s","a">>, <<"d","e">>, <<"t","o","m","a","t","e">>>>,
       <<<<"s","a","l","s","a">>, <<"t","o","m","a","t","e">>>>,
       <<<<"k","e","t","c","h","u","p">>>>,
       <<<<"t","o","m","a","t","e">>, <<"e","n">>, <<"p","o","l","v","o">>>>,
       <<<<"t","o","m","a","t","e">>, <<"e","n">>, <<"l","a","t","a">>>>,
       <<<<"e","x","t","r","a","c","t","o">>>>,
       <<<<"j","u","g","o">>>>,
       <<<<"p","u","l","p","a">>>>,
       <<<<"p","u","r","e">>>>,
       <<<<"c","o","n","g","e","l","a","d","o">>>>,
       <<<<"c","o","n","g","e","l","a","d","a">>>>,
       <<<<"d","e","s","h","i","d","r","a","t","a","d","o">>>>,
       <<<<"d","e","s","h","i","d","r","a","t","a","d","a">>>> >>

MORRON_EXC ==
    << <<<<"s","a","l","s","a">>>>,
       <<<<"m","o","l","e">>>>,
       <<<<"p","a","s","t","a">>>>,
       <<<<"c","o","n","s","e","r","v","a">>>>,
       <<<<"e","n","c","u","r","t","i","d","o">>>>,
       <<<<"e","n">>, <<"v","i","n","a","g","r","e">>>>,
       <<<<"e","n">>, <<"l","a","t","a">>>>,
       <<<<"m","o","l","i","d","o">>>>,
       <<<<"m","o","l","i","d","a">>>>,
       <<<<"d","e","s","h","i","d","r","a","t","a","d","o">>>>,
       <<<<"d","e","s","h","i","d","r","a","t","a","d","a">>>>,
       <<<<"c","o","n","g","e","l","a","d","o">>>>,
       <<<<"c","o","n","g","e","l","a","d","a">>>>,
       <<<<"p","u","l","p","a">>>>,
       <<<<"p","a","t","e">>>> >>

CEBOLLA_EXC ==
    << <<<<"e","n">>, <<"p","o","l","v","o">>>>,
       <<<<"s","a","l","s","a">>>>,
       <<<<"c","o","n","s","e","r","v","a">>>>,
       <<<<"e","n","c","u","r","t","i","d","o">>>>,
       <<<<"e","n","c","u","r","t","i","d","a">>>>,
       <<<<"c","o","n","g","e","l","a","d","o">>>>,
       <<<<"c","o","n","g","e","l","a","d","a">>>>,
       <<<<"d","e","s","h","i","d","r","a","t","a","d","o">>>>,
       <<<<"d","e","s","h","i","d","r","a","t","a","d","a">>>>,
       <<<<"p","a","t","e">>>>,
       <<<<"c","r","e","m","a">>>>,
       <<<<"s","o","p","a">>>> >>

PAPA_EXC ==
    << <<<<"c","h","i","p","s">>>>,
       <<<<"f","r","i","t","a">>>>,
       <<<<"f","r","i","t","a","s">>>>,
       <<<<"p","u","r","e">>>>,
       <<<<"c","o","n","g","e","l","a","d","o">>>>,
       <<<<"c","o","n","g","e","l","a","d","a">>>>,
       <<<<"d","e","s","h","i","d","r","a","t","a","d","o">>>>,
       <<<<"d","e","s","h","i","d","r","a","t","a","d","a">>>>,
       <<<<"h","a","r","i","n","a">>>>,
       <<<<"s","o","p","a">>>>,
       <<<<"s","n","a","c","k">>>> >>

ZANAHORIA_EXC ==
    << <<<<"j","u","g","o">>>>,
       <<<<"p","u","r","e">>>>,
       <<<<"c","o","n","s","e","r","v","a">>>>,
       <<<<"c","o","n","g","e","l","a","d","o">>>>,
       <<<<"c","o","n","g","e","l","a","d","a">>>>,
       <<<<"d","e","s","h","i","d","r","a","t","a","d","o">>>>,
       <<<<"d","e","s","h","i","d","r","a","t","a","d","a">>>>,
       <<<<"s","a","l","s","a">>>>,
       <<<<"t","a","r","t","a">>>>,
       <<<<"p","a","s","t","e","l">>>>,
       <<<<"m","e","r","m","e","l","a","d","a">>>> >>

LECHUGA_EXC ==
    << <<<<"e","n","s","a","l","a","d","a">>, <<"p","r","o","c","e","s","a","d","a">>>>,
       <<<<"m","i","x">>, <<"d","e">>, <<"e","n","s","a","l","a","d","a","s">>>>,
       <<<<"c","o","n","g","e","l","a","d","o">>>>,
       <<<<"c","o","n","g","e","l","a","d","a">>>>,
       <<<<"d","e","s","h","i","d","r","a","t","a","d","o">>>>,
       <<<<"d","e","s","h","i","d","r","a","t","a","d","a">>>> >>

REMOLACHA_EXC ==
    << <<<<"e","n">>, <<"l","a","t","a">>>>,
       <<<<"c","o","n","s","e","r","v","a">>>>,
       <<<<"e","n","c","u","r","t","i","d","o">>>>,
       <<<<"e","n","c","u","r","t","i","d","a">>>>,
       <<<<"c","o","n","g","e","l","a","d","o">>>>,
       <<<<"c","o","n","g","e","l","a","d","a">>>>,
       <<<<"d","e","s","h","i","d","r","a","t","a","d","o">>>>,
       <<<<"d","e","s","h","i","d","r","a","t","a","d","a">>>>,
       <<<<"j","u","g","o">>>>,
       <<<<"p","u","l","p","a">>>>,
       <<<<"m","e","r","m","e","l","a","d","a">>>> >>

BANANA_EXC ==
    << <<<<"h","a","r","i","n","a">>>>,
       <<<<"p","o","l","v","o">>>>,
       <<<<"c","h","i","p","s">>>>,
       <<<<"f","r","i","t","a">>>>,
       <<<<"d","u","l","c","e">>>>,
       <<<<"m","e","r","m","e","l","a","d","a">>>>,
       <<<<"b","a","t","i","d","o">>>>,
       <<<<"j","u","g","o">>>>,
       <<<<"s","n","a","c","k">>>>,
       <<<<"p","u","r","e">>>>,
       <<<<"c","o","n","g","e","l","a","d","o">>>>,
       <<<<"c","o","n","g","e","l","a","d","a">>>>,
       <<<<"d","e","s","h","i","d","r","a","t","a","d","o">>>>,
       <<<<"d","e","s","h","i","d","r","a","t","a","d","a">>>> >>

CITRICOS_EXC ==
    << <<<<"j","u","g","o">>>>,
       <<<<"m","e","r","m","e","l","a","d","a">>>>,
       <<<<"c","o","n","c","e","n","t","r","a","d","o">>>>,
       <<<<"c","o","n","c","e","n","t","r","a","d","a">>>>,
       <<<<"e","s","e","n","c","i","a">>>>,
       <<<<"s","a","b","o","r">>>>,
       <<<<"p","u","l","p","a">>>>,
       <<<<"c","o","n","g","e","l","a","d","o">>>>,
       <<<<"c","o","n","g","e","l","a","d","a">>>>,
       <<<<"d","e","s","h","i","d","r","a","t","a","d","o">>>>,
       <<<<"d","e","s","h","i","d","r","a","t","a","d","a">>>>,
       <<<<"d","u","l","c","e">>>>,
       <<<<"j","a","r","a","b","e">>>> >>

\* the index after the words ws[k..] of an alternative matched at i, 0 if they
\* do not match there
RECURSIVE WordsEnd(_, _, _, _)
WordsEnd(d, ws, k, i) ==
    IF ~OccursAt(d, ws[k], i) THEN 0
    ELSE IF k = Len(ws) THEN i + Len(ws[k])
    ELSE IF \E j \in (i + Len(ws[k]))..Len(d) : ~IsSpaceChar(d[j])
    THEN LET nxt == CHOOSE j \in (i + Len(ws[k]))..Len(d) :
                        /\ ~IsSpaceChar(d[j])
                        /\ \A m \in (i + Len(ws[k]))..(j - 1) : IsSpaceChar(d[m])
         IN IF nxt > i + Len(ws[k]) THEN WordsEnd(d, ws, k + 1, nxt) ELSE 0
    ELSE 0

\* X_RE.search(d): some alternative occurs somewhere; the alternatives of
\* EXCLUSIONES_GENERALES_RE stand between two \b
ExcSearch(d, exc, bounded) ==
    \E a \in DOMAIN exc : \E i \in DOMAIN d :
        /\ WordsEnd(d, exc[a], 1, i) # 0
        /\ bounded => Boundary(d, i) /\ Boundary(d, WordsEnd(d, exc[a], 1, i))

\* the rules of clasifica_producto in the order of lines 227-259: the tag, the
\* keywords of which one must occur, the keywords that must all occur, and the
\* exclusion regex with whether it stands between \b.  (PAPA_EXC_RE's "chuño"
\* is left out: it has no match in a text without accents and tildes.)
FRESH_RULES ==
    << [tag |-> <<"T","o","m","a","t","e"," ","f","r","e","s","c","o">>,
        any |-> {<<"t","o","m","a","t","e">>},
        all |-> {}, exc |-> TOMATE_EXC, bounded |-> FALSE],
       [tag |-> <<"M","o","r","r","o'","n"," ","r","o","j","o">>,
        any |-> {<<"m","o","r","r","o","n">>, <<"l","o","c","o","t","e">>, <<"p","i","m","i","e","n","t","o">>, <<"p","i","m","e","n","t","o","n">>},
        all |-> {<<"r","o","j","o">>}, exc |-> MORRON_EXC, bounded |-> FALSE],
       [tag |-> <<"C","e","b","o","l","l","a"," ","f","r","e","s","c","a">>,
        any |-> {<<"c","e","b","o","l","l","a">>},
        all |-> {}, exc |-> CEBOLLA_EXC, bounded |-> FALSE],
       [tag |-> <<"P","a","p","a"," ","f","r","e","s","c","a">>,
        any |-> {<<"p","a","p","a">>, <<"p","a","t","a","t","a">>},
        all |-> {}, exc |-> PAPA_EXC, bounded |-> FALSE],
       [tag |-> <<"Z","a","n","a","h","o","r","i","a"," ","f","r","e","s","c","a">>,
        any |-> {<<"z","a","n","a","h","o","r","i","a">>},
        all |-> {}, exc |-> ZANAHORIA_EXC, bounded |-> FALSE],
       [tag |-> <<"L","e","c","h","u","g","a"," ","f","r","e","s","c","a">>,
        any |-> {<<"l","e","c","h","u","g","a">>},
        all |-> {}, exc |-> LECHUGA_EXC, bounded |-> FALSE],
       [tag |-> <<"R","e","m","o","l","a","c","h","a"," ","f","r","e","s","c","a">>,
        any |-> {<<"r","e","m","o","l","a","c","h","a">>},
        all |-> {}, exc |-> REMOLACHA_EXC, bounded |-> FALSE],
       [tag |-> <<"R","u'","c","u","l","a"," ","f","r","e","s","c","a">>,
        any |-> {<<"r","u","c","u","l","a">>, <<"a","r","u","g","u","l","a">>},
        all |-> {}, exc |-> EXCLUSIONES_GENERALES, bounded |-> TRUE],
       [tag |-> <<"B","e","r","r","o"," ","f","r","e","s","c","o">>,
        any |-> {<<"b","e","r","r","o">>},
        all |-> {}, exc |-> EXCLUSIONES_GENERALES, bounded |-> TRUE],
       [tag |-> <<"B","a","n","a","n","a"," ","f","r","e","s","c","a">>,
        any |-> {<<"b","a","n","a","n","a">>, <<"b","a","n","a","n","o">>, <<"p","l","a","t","a","n","o">>, <<"g","u","i","n","e","o">>},
        all |-> {}, exc |-> BANANA_EXC, bounded |-> FALSE],
       [tag |-> <<"C","i'","t","r","i","c","o"," ","f","r","e","s","c","o">>,
        any |-> {<<"n","a","r","a","n","j","a">>, <<"m","a","n","d","a","r","i","n","a">>, <<"p","o","m","e","l","o">>, <<"l","i","m","o","n">>, <<"a","p","e","p","u">>},
        all |-> {}, exc |-> CITRICOS_EXC, bounded |-> FALSE] >>

\* the condition of one `if` of lines 227-259
RuleFires(r, d) ==
    /\ \E k \in r.any : Contains(d, k)
    /\ \A k \in r.all : Contains(d, k)
    /\ ~ExcSearch(d, r.exc, r.bounded)

\* a scan that keeps the tag of the last rule whose condition holds
RECURSIVE fresh_scan_last(_, _, _)
fresh_scan_last(d, i, tag) ==
    IF i > Len(FRESH_RULES) THEN tag
    ELSE IF RuleFires(FRESH_RULES[i], d) THEN fresh_scan_last(d, i + 1, FRESH_RULES[i].tag)
    ELSE fresh_scan_last(d, i + 1, tag)

\* lines 227-261: the rules are tried in order and the first one returns
RECURSIVE fresh_scan(_, _, _)
fresh_scan(d, i, tag) ==
    IF i > Len(FRESH_RULES) THEN tag
    ELSE IF RuleFires(FRESH_RULES[i], d) THEN FRESH_RULES[i].tag
    ELSE fresh_scan(d, i + 1, tag)

\* clasifica_producto, lines 222-261
clasifica_producto(descripcion) ==
    IF normalize_text(descripcion) = <<>> THEN <<>>
    ELSE fresh_scan(normalize_text(descripcion), 1, <<>>)

(***************************************************************************)
(* 2.5 Generic exclusions                                                  *)
(***************************************************************************)
kCombo == <<"c","o","m","b","o">>
kDisney == <<"d","i","s","n","e","y">>
kPack == <<"p","a","c","k">>
kOferta == <<"o","f","e","r","t","a">>
kAhorro == <<"a","h","o","r","r","o">>
kPromo == <<"p","r","o","m","o">>

\* r"\bpack\b\s*\b(oferta|ahorro|promo)\b"
MatchesPackPromo(d) ==
    \E i \in 1..(Len(d) + 1) :
        /\ OccursAt(d, kPack, i)
        /\ Boundary(d, i)
        /\ Boundary(d, i + 4)
        /\ \E j \in (i + 4)..(Len(d) + 1) :
              /\ \A k \in (i + 4)..(j - 1) : IsSpaceChar(d[k])
              /\ Boundary(d, j)
              /\ \E w \in {kOferta, kAhorro, kPromo} :
                    OccursAt(d, w, j) /\ Boundary(d, j + Len(w))

\* _ex_re.search(name) with re.I
is_excluded(name) ==
    LET d == lower(name)
    IN \/ ContainsWord(d, kCombo)
       \/ MatchesPackPromo(d)
       \/ ContainsWord(d, kDisney)

(***************************************************************************)
(* 4. Price normalization.  A price is held in hundredths.                 *)
(***************************************************************************)
FilterSeq(s, Keep(_)) ==
    LET RECURSIVE Go(_)
        Go(i) == IF i = 0 THEN <<>>
                 ELSE IF Keep(s[i]) THEN Append(Go(i - 1), s[i]) ELSE Go(i - 1)
    IN Go(Len(s))

DigitValue(c) == CHOOSE n \in 0..9 : <<"0","1","2","3","4","5","6","7","8","9">>[n + 1] = c

\* value of a digit string, as an integer
DigitsValue(s) ==
    LET RECURSIVE Go(_)
        Go(i) == IF i = 0 THEN 0 ELSE 10 * Go(i - 1) + DigitValue(s[i])
    IN Go(Len(s))

Pow10(k) ==
    LET RECURSIVE Go(_)
        Go(i) == IF i = 0 THEN 1 ELSE 10 * Go(i - 1)
    IN Go(k)

\* float(txt) for txt over digits and ".", in hundredths; 0 on ValueError
ParseFloatCenti(txt) ==
    LET dots == {i \in DOMAIN txt : txt[i] = "."}
        digs == FilterSeq(txt, LAMBDA c : c \in DigitChars)
    IN IF Cardinality(dots) > 1 \/ digs = <<>> THEN 0
       ELSE IF dots = {} THEN 100 * DigitsValue(txt)
       ELSE LET p == CHOOSE i \in dots : TRUE
                fracLen == Len(txt) - p
            IN (100 * DigitsValue(digs)) \div Pow10(fracLen)

\* norm_price: keep digits, "," and "."; drop "."; "," becomes the decimal point
norm_price(val) ==
    LET kept == FilterSeq(val, LAMBDA c : c \in DigitChars \cup {",", "."})
        nodots == FilterSeq(kept, LAMBDA c : c # ".")
        txt == [i \in DOMAIN nodots |-> IF nodots[i] = "," THEN "." ELSE nodots[i]]
    IN ParseFloatCenti(txt)

(***************************************************************************)
(* 3. Unit parsing.  A float is held in hundredths; an Optional[float] is  *)
(* None or Some(hundredths).                                               *)
(***************************************************************************)
None == [some |-> FALSE, v |-> 0]
Some(x) == [some |-> TRUE, v |-> x]

uKg == <<"k","g">>
uKilo == <<"k","i","l","o">>
uG == <<"g">>
uGr == <<"g","r">>
uL == <<"l">>
uLt == <<"l","t">>
uLitro == <<"l","i","t","r","o">>
uMl == <<"m","l">>
uCc == <<"c","c">>
uUni == <<"u","n","i">>
uUnid == <<"u","n","i","d">>
uU == <<"u">>
uPaq == <<"p","a","q">>
uPaquete == <<"p","a","q","u","e","t","e">>
fGR == <<"G","R">>
fML == <<"M","L">>
fUNID == <<"U","N","I","D">>
fPAQ == <<"P","A","Q">>
kMedia == <<"m","e","d","i","a">>
kHalf == <<"1","/","2">>

\* the unit alternatives of RE_MULTIPACK (line 301), RE_FRACTION (line 305) and
\* RE_UNITS (line 309, "uni(?:d)?" written out in the order the engine tries)
MULTIPACK_UNITS == <<uKg, uKilo, uG, uGr, uL, uLt, uLitro, uMl, uCc>>
FRACTION_UNITS == <<uKg, uKilo, uL, uLt, uLitro>>
COUNT_UNITS == <<uUnid, uUni, uU, uPaq, uPaquete>>

SpaceChars == {" "}

\* the index after the longest run of characters of S that starts at i
RECURSIVE RunEnd(_, _, _)
RunEnd(d, i, S) == IF i <= Len(d) /\ d[i] \in S THEN RunEnd(d, i + 1, S) ELSE i

IsDigitAt(d, i) == i \in DOMAIN d /\ d[i] \in DigitChars

\* "(?P<unit>a|b|...)\b" at i: the first alternative that matches, <<>> if none
UnitAt(d, i, units) ==
    LET hits == {k \in DOMAIN units :
                    OccursAt(d, units[k], i) /\ Boundary(d, i + Len(units[k]))}
    IN IF hits = {} THEN <<>> ELSE units[CHOOSE k \in hits : \A j \in hits : k <= j]

\* the index after "\d+(?:[.,]\d+)?" taken from the digit at i
SizeEnd(d, i) ==
    LET e == RunEnd(d, i, DigitChars)
    IN IF e \in DOMAIN d /\ d[e] \in {".", ","} /\ IsDigitAt(d, e + 1)
       THEN RunEnd(d, e + 1, DigitChars)
       ELSE e

NoMatch == [ok |-> FALSE, count |-> <<>>, size |-> <<>>, unit |-> <<>>]

\* "(?P<size>\d+(?:[.,]\d+)?)\s*(?P<unit>...)\b" at i
SizeUnitAt(d, i, cnt) ==
    IF ~IsDigitAt(d, i) THEN NoMatch
    ELSE LET e == SizeEnd(d, i)
             u == UnitAt(d, RunEnd(d, e, SpaceChars), MULTIPACK_UNITS)
         IN IF u = <<>> THEN NoMatch
            ELSE [ok |-> TRUE, count |-> cnt, size |-> SubSeq(d, i, e - 1), unit |-> u]

\* "(?P<count>\d+)\s*[x]\s*" at i followed by the size and the unit
CountSizeUnitAt(d, i) ==
    IF ~IsDigitAt(d, i) THEN NoMatch
    ELSE LET e == RunEnd(d, i, DigitChars)
             x == RunEnd(d, e, SpaceChars)
         IN IF x \in DOMAIN d /\ d[x] = "x"
            THEN SizeUnitAt(d, RunEnd(d, x + 1, SpaceChars), SubSeq(d, i, e - 1))
            ELSE NoMatch

\* RE_MULTIPACK at i: the optional count is tried first
MultipackAt(d, i) ==
    IF CountSizeUnitAt(d, i).ok THEN CountSizeUnitAt(d, i) ELSE SizeUnitAt(d, i, <<>>)

\* the least index of 1..Len(d) at which At holds, 0 if there is none
FirstIndex(d, At(_)) ==
    IF \E i \in DOMAIN d : At(i)
    THEN CHOOSE i \in DOMAIN d : At(i) /\ \A j \in 1..(i - 1) : ~At(j)
    ELSE 0

\* RE_MULTIPACK.search(d), line 341
multipack_search(d) ==
    LET i == FirstIndex(d, LAMBDA k : MultipackAt(d, k).ok)
    IN IF i = 0 THEN NoMatch ELSE MultipackAt(d, i)

\* the regex of line 382 searched in d
simple_search(d) ==
    LET i == FirstIndex(d, LAMBDA k : SizeUnitAt(d, k, <<>>).ok)
    IN IF i = 0 THEN NoMatch ELSE SizeUnitAt(d, i, <<>>)

NoFraction == [ok |-> FALSE, num |-> <<>>, den |-> <<>>, unit |-> <<>>]

\* RE_FRACTION at i
FractionAt(d, i) ==
    IF ~IsDigitAt(d, i) THEN NoFraction
    ELSE LET ne == RunEnd(d, i, DigitChars)
             sl == RunEnd(d, ne, SpaceChars)
             ds == RunEnd(d, sl + 1, SpaceChars)
             de == RunEnd(d, ds, DigitChars)
             u == UnitAt(d, RunEnd(d, de, SpaceChars), FRACTION_UNITS)
         IN IF sl \in DOMAIN d /\ d[sl] = "/" /\ IsDigitAt(d, ds) /\ u # <<>>
            THEN [ok |-> TRUE, num |-> SubSeq(d, i, ne - 1), den |-> SubSeq(d, ds, de - 1),
                  unit |-> u]
            ELSE NoFraction

\* RE_FRACTION.search(d), line 355
fraction_search(d) ==
    LET i == FirstIndex(d, LAMBDA k : FractionAt(d, k).ok)
    IN IF i = 0 THEN NoFraction ELSE FractionAt(d, i)

\* "w1\s+w2\b" at i
TwoWordsAt(d, w1, w2, i) ==
    /\ OccursAt(d, w1, i)
    /\ RunEnd(d, i + Len(w1), SpaceChars) > i + Len(w1)
    /\ OccursAt(d, w2, RunEnd(d, i + Len(w1), SpaceChars))
    /\ Boundary(d, RunEnd(d, i + Len(w1), SpaceChars) + Len(w2))

\* RE_DOCENA at i: 0 for no match, 6 for the two half-dozen alternatives, else 12
DocenaAt(d, i) ==
    IF ~Boundary(d, i) THEN 0
    ELSE IF TwoWordsAt(d, kHalf, kDocena, i) \/ TwoWordsAt(d, kMedia, kDocena, i) THEN 6
    ELSE IF OccursAt(d, kDocena, i) /\ Boundary(d, i + Len(kDocena)) THEN 12
    ELSE 0

\* RE_DOCENA.search(d) and the test of lines 370-374 on the text matched
docena_search(d) ==
    LET i == FirstIndex(d, LAMBDA k : DocenaAt(d, k) # 0)
    IN IF i = 0 THEN 0 ELSE DocenaAt(d, i)

\* "(?P<unit>uni(?:d)?|u|paq|paquete)s?\b" at i
CountUnitAt(d, i) ==
    LET hits == {k \in DOMAIN COUNT_UNITS :
                    /\ OccursAt(d, COUNT_UNITS[k], i)
                    /\ \/ Boundary(d, i + Len(COUNT_UNITS[k]))
                       \/ /\ OccursAt(d, <<"s">>, i + Len(COUNT_UNITS[k]))
                          /\ Boundary(d, i + Len(COUNT_UNITS[k]) + 1)}
    IN IF hits = {} THEN <<>>
       ELSE COUNT_UNITS[CHOOSE k \in hits : \A j \in hits : k <= j]

\* RE_UNITS at the digit at i; the optional prefix takes no part in the groups
UnitsAt(d, i) ==
    IF ~IsDigitAt(d, i) THEN NoMatch
    ELSE LET e == RunEnd(d, i, DigitChars)
             u == CountUnitAt(d, RunEnd(d, e, SpaceChars))
         IN IF u = <<>> THEN NoMatch
            ELSE [ok |-> TRUE, count |-> SubSeq(d, i, e - 1), size |-> <<>>, unit |-> u]

\* RE_UNITS.search(d), line 376
units_search(d) ==
    LET i == FirstIndex(d, LAMBDA k : UnitsAt(d, k).ok)
    IN IF i = 0 THEN NoMatch ELSE UnitsAt(d, i)

\* _to_float, lines 314-319: "." removed, "," the decimal point
to_float(num_str) ==
    LET nodots == FilterSeq(num_str, LAMBDA c : c # ".")
    IN ParseFloatCenti([i \in DOMAIN nodots |-> IF nodots[i] = "," THEN "." ELSE nodots[i]])

\* _norm_unit_symbol, lines 321-335
norm_unit_symbol(u) ==
    IF u \in {uKg, uKilo} THEN fGR
    ELSE IF u \in {uG, uGr} THEN fGR
    ELSE IF u \in {uL, uLt, uLitro} THEN fML
    ELSE IF u \in {uMl, uCc} THEN fML
    ELSE IF u \in {uUni, uUnid, uU} THEN fUNID
    ELSE IF u \in {uPaq, uPaquete} THEN fPAQ
    ELSE upper(u)

\* re.search(r"\bkg|kilo\b", unit), lines 346 and 387
IsKiloUnit(u) ==
    \/ \E i \in DOMAIN u : OccursAt(u, uKg, i) /\ Boundary(u, i)
    \/ \E i \in DOMAIN u : OccursAt(u, uKilo, i) /\ Boundary(u, i + Len(uKilo))

\* re.search(r"\bl|lt|litro\b", unit), lines 350 and 391
IsLitreUnit(u) ==
    \/ \E i \in DOMAIN u : OccursAt(u, uL, i) /\ Boundary(u, i)
    \/ \E i \in DOMAIN u : OccursAt(u, uLt, i)
    \/ \E i \in DOMAIN u : OccursAt(u, uLitro, i) /\ Boundary(u, i + Len(uLitro))

\* str(n) of a natural number
RECURSIVE IntToStr(_)
IntToStr(n) ==
    IF n < 10 THEN <<(<<"0","1","2","3","4","5","6","7","8","9">>)[n + 1]>>
    ELSE IntToStr(n \div 10) \o IntToStr(n % 10)

\* int(round(x)) of a float held in hundredths: halves go to the even integer
int_round(c) ==
    IF c % 100 > 50 \/ (c % 100 = 50 /\ (c \div 100) % 2 = 1)
    THEN c \div 100 + 1
    ELSE c \div 100

\* the triple returned at lines 348, 352, 365, 388 and 392
sized(total, sym) == <<IntToStr(int_round(total)) \o sym, Some(total), sym>>

\* int(m.group('count')) if m.group('count') else 1, line 343
count_of(m) == IF m.count = <<>> THEN 1 ELSE DigitsValue(m.count)

\* lines 345-352 and 386-392: the total in base units of a size with its unit
size_total(cnt, size, unit) ==
    IF norm_unit_symbol(unit) = fGR
    THEN cnt * (to_float(size) * (IF IsKiloUnit(unit) THEN 1000 ELSE 1))
    ELSE cnt * (to_float(size) * (IF IsLitreUnit(unit) THEN 1000 ELSE 1))

\* (num / den) if den else 0.0, times 1000.0: lines 359-363
fraction_total(mf) ==
    IF to_float(mf.den) = 0 THEN 0
    ELSE (to_float(mf.num) * 1000 * 100) \div to_float(mf.den)

\* lines 369-380: dozens and counted units
parse_counted(d) ==
    IF docena_search(d) = 6 THEN <<IntToStr(6) \o fUNID, Some(600), fUNID>>
    ELSE IF docena_search(d) = 12 THEN <<IntToStr(12) \o fUNID, Some(1200), fUNID>>
    ELSE IF units_search(d).ok
    THEN <<IntToStr(DigitsValue(units_search(d).count)) \o norm_unit_symbol(units_search(d).unit),
           Some(100 * DigitsValue(units_search(d).count)),
           norm_unit_symbol(units_search(d).unit)>>
    ELSE IF simple_search(d).ok
    THEN sized(size_total(1, simple_search(d).size, simple_search(d).unit),
               norm_unit_symbol(simple_search(d).unit))
    ELSE << <<>>, None, <<>> >>

\* lines 354-366: the fraction rule, then the rest of the cascade
parse_fraction(d) ==
    IF fraction_search(d).ok
    THEN sized(fraction_total(fraction_search(d)), norm_unit_symbol(fraction_search(d).unit))
    ELSE parse_counted(d)

\* lines 340-352: the multipack rule comes first
parse_cascade(d) ==
    IF multipack_search(d).ok
    THEN sized(size_total(count_of(multipack_search(d)), multipack_search(d).size,
                          multipack_search(d).unit),
               norm_unit_symbol(multipack_search(d).unit))
    ELSE parse_fraction(d)

\* parse_unidad_corr, lines 337-397: (Unidad_corr, Cantidad, Unidades_Separado)
parse_unidad_corr(nombre) == parse_cascade(normalize_text(nombre))

\* extract_unit_basic, lines 399-401
extract_unit_basic(name) == First(parse_unidad_corr(name))

(***************************************************************************)
(* Comparable price.  A quotient of floats is held as the reduced fraction *)
(* <<numerator, denominator>> of the real numbers; rounding is not         *)
(* modelled.                                                               *)
(***************************************************************************)
RECURSIVE GCD(_, _)
GCD(a, b) == IF b = 0 THEN a ELSE GCD(b, a % b)

Ratio(n, d) == <<n \div GCD(n, d), d \div GCD(n, d)>>
RatMul(x, y) == Ratio(x[1] * y[1], x[2] * y[2])
RatDiv(x, y) == Ratio(x[1] * y[2], x[2] * y[1])

NoneRatio == [some |-> FALSE, v |-> <<0, 1>>]
SomeRatio(x) == [some |-> TRUE, v |-> x]

\* a comparable price that divides by the quantity whatever the family
precio_por_cantidad(precio, cantidad, unidad_sep) ==
    IF ~cantidad.some \/ cantidad.v = 0 \/ cantidad.v <= 0 THEN NoneRatio
    ELSE IF upper(unidad_sep) \in {fGR, fML, fUNID, fPAQ}
    THEN SomeRatio(RatDiv(Ratio(precio, 100), Ratio(cantidad.v, 100)))
    ELSE NoneRatio

\* precio_comparable, lines 403-418, of a price and a quantity in hundredths
precio_comparable(precio, cantidad, unidad_sep) ==
    IF ~cantidad.some \/ cantidad.v = 0 \/ cantidad.v <= 0 THEN NoneRatio
    ELSE IF upper(unidad_sep) \in {fGR, fML}
    THEN SomeRatio(RatMul(Ratio(precio, 100), RatDiv(Ratio(1000, 1), Ratio(cantidad.v, 100))))
    ELSE IF upper(unidad_sep) \in {fUNID, fPAQ}
    THEN SomeRatio(RatDiv(Ratio(precio, 100), Ratio(cantidad.v, 100)))
    ELSE NoneRatio

(***************************************************************************)
(* Bounds and scaled constants                                             *)
(***************************************************************************)
\* number of main() invocations explored
MaxRuns == 2
\* the wall clock runs from tick 0 to MaxClock; a day has TicksPerDay ticks and
\* tick 0 of a day is 00:00:00
MaxClock == 1
TicksPerDay == 2
\* the workbook's cell limit, as the largest row count the grid can take
MaxGridRows == 7
\* chunk of _append_rows (5000 in the source, scaled down)
ChunkSize == 2
\* BiggieScraper.TAKE (TAKE is a reserved word of TLA+)
Take == 100

(***************************************************************************)
(* Timestamps.  A 'YYYY-MM-DD HH:MM:SS' string is <<day, tick of day>>, a   *)
(* 'YYYY-MM-DD' string is <<day>>, a datetime64 value is the tick count.   *)
(***************************************************************************)
\* datetime.strftime('%Y-%m-%d %H:%M:%S')
strftime(t) == <<t \div TicksPerDay, t % TicksPerDay>>

\* pd.to_datetime of a timestamp string
to_datetime(str) == IF Len(str) = 2 THEN str[1] * TicksPerDay + str[2]
                    ELSE str[1] * TicksPerDay

\* Series.astype(str) of a datetime64 column: pandas renders the whole column
\* as dates only when every value has a zero time of day
astype_str_datetime(col, t) ==
    IF \A i \in DOMAIN col : col[i] % TicksPerDay = 0
    THEN <<t \div TicksPerDay>>
    ELSE strftime(t)

(***************************************************************************)
(* Inputs: the listings the sites and the API show                         *)
(***************************************************************************)
nTomate == <<"T","o","m","a","t","e">>
nComboTomate == <<"C","o","m","b","o"," ","T","o","m","a","t","e">>
nComboHuevo == <<"C","o","m","b","o"," ","H","u","e","v","o">>
nJabon == <<"J","a","b","o","n">>
nHuevo == <<"H","u","e","v","o">>
p5 == <<"5">>
p15 == <<"1",",","5">>
pBad == <<"x">>

Listing(n, p) == [name |-> n, price |-> p]
hT5 == Listing(nTomate, p5)
hT15 == Listing(nTomate, p15)
hCombo == Listing(nComboTomate, p5)
hJabon == Listing(nJabon, p5)
hHuevo0 == Listing(nHuevo, pBad)
bCombo == Listing(nComboHuevo, p5)
bJabon == Listing(nJabon, p5)
bHuevo0 == Listing(nHuevo, pBad)

AllListings == {hT5, hT15, hCombo, hJabon, hHuevo0, bCombo, bJabon, bHuevo0}

\* the text functions tabulated once over the listings of the model
classifyTable == [l \in AllListings |-> classify_group_subgroup(l.name)]
excludedTable == [l \in AllListings |-> is_excluded(l.name)]
priceTable == [l \in AllListings |-> norm_price(l.price)]
upperTable == [l \in AllListings |-> upper(l.name)]

(***************************************************************************)
(* 6./7. Record assembly and scrapers                                      *)
(***************************************************************************)
SCRAPERS == <<"superseis", "biggie">>
IsHtml(name) == name # "biggie"
Urls == {"u1", "u2"}
kVerduras == <<"v","e","r","d","u","r","a","s">>
GROUPS == <<kHuevos, kVerduras>>

NoFecha == <<>>

Row(sup, producto, precio, grp, sub) ==
    [Supermercado |-> sup, Producto |-> producto, Precio |-> precio,
     Grupo |-> grp, Subgrupo |-> sub, FechaConsulta |-> NoFecha]

\* HtmlSiteScraper._assemble_row: <<>> stands for None
HtmlKeepsGroup(grp) == grp # <<>>

HtmlExcludes(l) == excludedTable[l]

\* _assemble_row for the listing l, whose price text the caller has normalized
assemble_row(sup, l) ==
    IF HtmlExcludes(l) THEN <<>>
    ELSE LET gs == classifyTable[l]
         IN IF ~HtmlKeepsGroup(gs[1]) THEN <<>>
            ELSE << Row(sup, upperTable[l], priceTable[l], gs[1], gs[2]) >>

\* "x if x is not None else ''", lines 504 and 506: the cell of an optional value
cell_of(opt) == IF opt.some THEN <<opt.v>> ELSE <<>>

\* the record of lines 498-510 from the values lines 489-496 computed
full_row(sup, nombre, precio, gs, clasif, unidad_simple, pu) ==
    [Supermercado |-> sup, Producto |-> upper(nombre), Precio |-> precio,
     Unidad |-> unidad_simple, Unidad_corr |-> First(pu), Cantidad |-> cell_of(Second(pu)),
     Unidades_Separado |-> Third(pu),
     Precio_comparable |-> cell_of(precio_comparable(precio, Second(pu), Third(pu))),
     Grupo |-> First(gs), Subgrupo |-> Second(gs), ClasificaProducto |-> clasif]

\* HtmlSiteScraper._assemble_row, lines 485-510, with every field of the
\* record; <<>> stands for None
assemble_full_row(sup, nombre, precio) ==
    IF is_excluded(nombre) THEN <<>>
    ELSE IF ~HtmlKeepsGroup(First(classify_group_subgroup(nombre))) THEN <<>>
    ELSE << full_row(sup, nombre, precio, classify_group_subgroup(nombre),
                     clasifica_producto(nombre), extract_unit_basic(nombre),
                     parse_unidad_corr(nombre)) >>

Concat(ss) ==
    LET RECURSIVE Go(_)
        Go(i) == IF i = 0 THEN <<>> ELSE Go(i - 1) \o ss[i]
    IN Go(Len(ss))

\* SuperseisScraper.parse_category after a successful fetch
html_parse_category(sup, items) ==
    Concat([i \in DOMAIN items |-> assemble_row(sup, items[i])])

\* the filter and stamping of HtmlSiteScraper.scrape, lines 525-528
HtmlKeeps(r) == r.Precio > 0

html_collect(result, stamp) ==
    LET kept == SelectSeq(result, HtmlKeeps)
    IN [i \in DOMAIN kept |-> [kept[i] EXCEPT !.FechaConsulta = stamp]]

\* a Biggie record that took only the detected group, without the fallback
BiggieGrupoDetected(grp_det, grp) == grp_det

\* the Grupo of a Biggie record, line 760
BiggieGrupo(grp_det, grp) == IF grp_det # <<>> THEN grp_det ELSE capitalize(grp)

\* the record BiggieScraper.parse_category builds for one item, lines 742-763
biggie_item(grp, it) ==
    LET gs == classifyTable[it]
    IN Row("biggie", upperTable[it], priceTable[it], BiggieGrupo(gs[1], grp), gs[2])

\* the records of one page, lines 741-763
biggie_items(grp, items) == [i \in DOMAIN items |-> biggie_item(grp, items[i])]

\* BiggieScraper.parse_category: the pagination loop over the API's responses.
\* script[k] is the answer to the k-th request; once the script is used up
\* every further request fails.  The result tells whether the call raised,
\* whether a request failed (line 737), and the list returned.
RECURSIVE biggie_pages(_, _, _, _, _)
biggie_pages(grp, script, k, skip, out) ==
    IF k > Len(script) \/ script[k].kind = "fail"
    THEN [raised |-> FALSE, failed |-> TRUE, out |-> out]
    ELSE IF script[k].kind = "garbled"
    THEN [raised |-> TRUE, failed |-> FALSE, out |-> <<>>]
    ELSE IF skip + Take >= script[k].count
    THEN [raised |-> FALSE, failed |-> FALSE,
          out |-> out \o biggie_items(grp, script[k].items)]
    ELSE biggie_pages(grp, script, k + 1, skip + Take,
                      out \o biggie_items(grp, script[k].items))

biggie_parse_category(grp, script) == biggie_pages(grp, script, 1, 0, <<>>)

\* the stamping of BiggieScraper.scrape, lines 777-779
biggie_collect(out, stamp) ==
    [i \in DOMAIN out |-> [out[i] EXCEPT !.FechaConsulta = stamp]]

(***************************************************************************)
(* Inputs: what a category fetch answers                                   *)
(***************************************************************************)
\* what one category page of an HTML site yields: the request fails (the
\* scraper logs and returns []), parsing raises, or the listings on the page
HtmlResult(st, items) == [status |-> st, items |-> items]
HtmlResultsWide ==
    {HtmlResult("failed", <<>>), HtmlResult("raised", <<>>), HtmlResult("ok", <<>>)}
    \cup {HtmlResult("ok", <<l>>) : l \in {hT5, hT15, hCombo, hJabon, hHuevo0}}
HtmlResultsSync ==
    {HtmlResult("failed", <<>>), HtmlResult("ok", <<hT5>>), HtmlResult("ok", <<hT15>>),
     HtmlResult("ok", <<hHuevo0>>)}

\* one answer of the Biggie API: a page of items with the total count; a
\* request that fails (line 737); a JSON answer of an unexpected shape, on which
\* the item loop raises (lines 741-763)
ApiOk(items, count) == [kind |-> "ok", items |-> items, count |-> count]
ApiFail == [kind |-> "fail", items |-> <<>>, count |-> 0]
ApiGarbled == [kind |-> "garbled", items |-> <<>>, count |-> 0]
ApiResponsesWide ==
    {ApiFail, ApiGarbled}
    \cup {ApiOk(items, c) : items \in {<<>>, <<bCombo>>, <<bJabon>>, <<bHuevo0>>},
                            c \in {Take, 2 * Take}}
\* the answers to the successive requests for one group, per group of GROUPS
BiggieScriptsWide ==
    [g \in DOMAIN GROUPS |-> {<<a, b>> : a \in ApiResponsesWide, b \in ApiResponsesWide}]
BiggieScriptsSync ==
    [g \in DOMAIN GROUPS |->
        IF g = 1
        THEN { <<ApiFail, ApiFail>>,
               <<ApiOk(<<bHuevo0>>, 2 * Take), ApiOk(<<bJabon>>, 2 * Take)>>,
               <<ApiOk(<<bJabon>>, 2 * Take), ApiOk(<<bCombo>>, 2 * Take)>> }
        ELSE { <<ApiFail, ApiFail>> }]

(***************************************************************************)
(* 13. main(): consolidation and the key difference                        *)
(***************************************************************************)
\* a consolidation without the price filter
PriceAny(r) == TRUE

\* lines 107-114, the columns this model keeps of a record
REQUIRED_COLUMNS == <<"Supermercado", "Producto", "Precio", "Grupo", "Subgrupo", "FechaConsulta">>
KEY_COLS == <<"Supermercado", "Producto", "FechaConsulta">>

\* line 833
missing_columns(hdr) == SelectSeq(REQUIRED_COLUMNS, LAMBDA c : c \notin Range(hdr))

\* _ensure_required_columns, lines 822-854, on a sheet whose first row is hdr:
\* the first row the sheet has afterwards and the header returned.  can_add
\* tells whether the requests of lines 842-846 go through; when they do not,
\* line 849 warns and line 851 returns the header found.
ensure_required_columns(hdr, can_add) ==
    IF hdr = <<>>
    THEN IF can_add
         THEN [sheet |-> REQUIRED_COLUMNS, header |-> REQUIRED_COLUMNS]
         ELSE [sheet |-> hdr, header |-> REQUIRED_COLUMNS]
    ELSE IF missing_columns(hdr) # <<>> /\ can_add
    THEN [sheet |-> hdr \o missing_columns(hdr), header |-> hdr \o missing_columns(hdr)]
    ELSE [sheet |-> hdr, header |-> hdr]

\* _align_df_columns, lines 971-981: the columns of hdr and no other, a column
\* the frame lacks being filled with "" (<<>> here)
align_df_columns(df, hdr) ==
    [i \in DOMAIN df |->
        [c \in Range(hdr) |-> IF c \in DOMAIN df[i] THEN df[i][c] ELSE <<>>]]

\* line 1070, df_all[KEY_COLS]: pandas raises KeyError on a column that is absent
key_cols_present(hdr) == \A i \in DOMAIN KEY_COLS : KEY_COLS[i] \in Range(hdr)

\* line 1041
PriceKept(r) == r.Precio > 0

KeyOf(r) == <<r.Supermercado, r.Producto, r.FechaConsulta>>

\* DataFrame.drop_duplicates(subset=KEY_COLS, keep="last")
drop_duplicates_last(df) ==
    LET RECURSIVE Go(_)
        Go(i) == IF i = 0 THEN <<>>
                 ELSE IF \E j \in (i + 1)..Len(df) : KeyOf(df[j]) = KeyOf(df[i])
                      THEN Go(i - 1)
                      ELSE Append(Go(i - 1), df[i])
    IN Go(Len(df))

\* lines 1037-1043
consolidate(rws) ==
    LET kept == SelectSeq(rws, PriceKept)
        typed == [i \in DOMAIN kept |->
                    [kept[i] EXCEPT !.FechaConsulta = to_datetime(kept[i].FechaConsulta)]]
    IN drop_duplicates_last(typed)

\* line 1069: the keys of the rows read from the sheet (all cells are strings)
prev_keys(prev) == {KeyOf(prev[i]) : i \in DOMAIN prev}

\* line 1070: df_all[KEY_COLS].astype(str) joined with "|"
all_keys(df) ==
    LET col == [i \in DOMAIN df |-> df[i].FechaConsulta]
    IN [i \in DOMAIN df |->
          <<df[i].Supermercado, df[i].Producto, astype_str_datetime(col, df[i].FechaConsulta)>>]

\* line 1071
mask_new(key, keys) == key \notin keys

\* line 1072
compute_new_rows(df, prev) ==
    LET keys == all_keys(df)
        RECURSIVE Go(_)
        Go(i) == IF i = 0 THEN <<>>
                 ELSE IF mask_new(keys[i], prev_keys(prev))
                      THEN Append(Go(i - 1), df[i])
                      ELSE Go(i - 1)
    IN Go(Len(df))

\* _append_rows, lines 881-883: the values written for a chunk of rows
sheet_values(chunk) ==
    [i \in DOMAIN chunk |-> [chunk[i] EXCEPT !.FechaConsulta = strftime(chunk[i].FechaConsulta)]]

Min(a, b) == IF a < b THEN a ELSE b
Max(a, b) == IF a > b THEN a ELSE b

\* the i-th request of _append_rows, lines 885-886
chunk_of(df, done) == SubSeq(df, done + 1, Min(Len(df), done + ChunkSize))

\* ws.resize(rows=n): rows beyond n are deleted
resized(data, n) == SubSeq(data, 1, Min(Len(data), n - 1))

\* a row count that forgets the header row
nrows_no_header(prev) == Len(prev)

\* the nrows main passes to _shrink_grid, lines 1076 and 1088
nrows_no_new(prev) == Len(prev) + 1
total_rows(prev, new) == 1 + Len(prev) + Len(new)

(***************************************************************************)
(* The text functions on their own: a name and a price are drawn and one   *)
(* function is applied to them                                             *)
(***************************************************************************)
NameHeads ==
    {<<"T","o","m","a","t","e">>,
     <<"J","U","G","O"," ","D","E"," ","T","O","M","A","T","E">>,
     <<"S","a","l","s","a"," ","d","e"," ","t","o","m","a","t","e"," ","c","o","n"," ","p","a","p","a">>,
     <<"P","a","p","a">>,
     <<"P","a","p","a","s"," ","f","r","i","t","a","s">>,
     <<"T","o","m","a","t","e"," ","p","a","p","a">>,
     <<"P","a","p","a"," ","t","o","m","a","t","e">>,
     <<"P","a","p","a"," ","t","o","m","a","t","e","s">>,
     <<"H","u","e","v","o">>,
     <<"Q","u","e","s","o">>,
     <<"P","u","r","e'"," ","d","e"," ","p","a","p","a">>,
     <<"C","e","b","o","l","l","a">>,
     <<"J","u","g","o">>,
     <<"M","o","r","r","o'","n"," ","r","o","j","o">>,
     <<"B","a","n","a","n","a">>,
     <<"J","a","b","o","n">>}
NameSizes ==
    {<<>>,
     <<"1","/","2"," ","k","g">>,
     <<"1","/","4"," ","l">>,
     <<"3","/","4"," ","k","i","l","o">>,
     <<"5","0","0"," ","g">>,
     <<"2"," ","x"," ","5","0","0"," ","g">>,
     <<"1",",","5"," ","l">>,
     <<"1",".","5"," ","k","g">>,
     <<"1","L">>,
     <<"d","o","c","e","n","a">>,
     <<"m","e","d","i","a"," ","d","o","c","e","n","a">>,
     <<"1","/","2"," ","d","o","c","e","n","a">>,
     <<"x"," ","6"," ","u","n","i">>,
     <<"3"," ","p","a","q">>,
     <<"2","5","0","m","l">>,
     <<"0",",","5"," ","g">>}

\* the names: a product, then its presentation if any
JoinName(h, s) == IF s = <<>> THEN h ELSE h \o <<" ">> \o s
TextNames == {JoinName(h, s) : h \in NameHeads, s \in NameSizes}

\* prices, quantities (hundredths) and families handed to precio_comparable
TextPrices == {0, 500, 1500000}
Cantidades == {None, Some(0), Some(0 - 100), Some(300), Some(50000)}
Familias == {fGR, fML, fUNID, fPAQ, uGr, <<>>}

NoCall == [fn |-> "none", args |-> <<>>, value |-> <<>>]
Called(f, a, v) == [fn |-> f, args |-> a, value |-> v]

\* the counts and the pages the API answers to one request of parse_category:
\* a count is any total of at most MaxPages pages, full or with one item over
MaxPages == 3
PageCounts == {k * Take : k \in 0..MaxPages} \cup {k * Take + 1 : k \in 0..(MaxPages - 1)}
PageItems == {<<>>, <<bCombo>>, <<bHuevo0>>}

\* no request has been answered
NoAnswer == [kind |-> "none", items |-> <<>>, count |-> 0]

\* parse_category is not running on its own
NoLoop == [pc |-> "none", grp |-> <<>>, skip |-> 0, out |-> <<>>, js |-> NoAnswer,
           asked |-> <<>>, pages |-> <<>>]

\* lines 727-728: the locals when the loop is entered for the group grp.  asked
\* and pages are history: the skip of every request made and the items of
\* every page answered
StartLoop(grp) == [pc |-> "request", grp |-> grp, skip |-> 0, out |-> <<>>, js |-> NoAnswer,
                   asked |-> <<>>, pages |-> <<>>]

(***************************************************************************)
(* State                                                                   *)
(***************************************************************************)
VARIABLES
    now,            \* the wall clock, in ticks
    runs,           \* main() invocations started so far
    pc,             \* where main() is: "idle" between invocations
    outcome,        \* how the last invocation ended
    si,             \* main: index of the scraper in SCRAPERS
    ts,             \* scrape: the retailer's timestamp string
    rows,           \* scrape: the retailer's row list
    pending,        \* HtmlSiteScraper.scrape: futures as_completed has not yielded yet
    running,        \* the pool: categories whose worker is still in parse_category
    finished,       \* futures whose worker is done and that are not yet yielded
    gi,             \* BiggieScraper.scrape: index of the group in GROUPS
    all_rows,       \* main: rows collected from all scrapers
    df_all,         \* main: the consolidated frame
    prev_df,        \* main: the rows read from the sheet
    new_rows,       \* main: the rows to append
    written,        \* _append_rows: rows of new_rows sent so far by the current call
    store,          \* the sheet's data rows (row 2 onwards)
    gridRows,       \* the sheet's row_count
    header,         \* the sheet: the column names of its first row
    nombre,         \* a text function on its own: the name it is given
    precio,         \*   the price it is given, in hundredths
    call,           \*   the function applied, its arguments and the value returned
    loop,           \* BiggieScraper.parse_category on its own: the locals of its loop
    \* history variables, for stating the properties
    submitted,      \* <<retailer, category>> pairs whose fetch this run started
    fetched,        \* per finished category: how it ended and what it handed over
    raisedScrapers, \* retailers whose scrape() raised in this run
    storeAtStart,   \* the sheet's data rows when this run started
    appended,       \* the rows this run has appended to the sheet
    capacityHit,    \* a store request of this run failed on the cell limit
    capped,         \* this run could not add the columns the header lacks
    dropped,        \* how many rows line 1041 removed in this run
    prevRun         \* the previous run's consolidated frame and outcome

vars == <<now, runs, pc, outcome, si, ts, rows, pending, running, finished, gi, all_rows, df_all, prev_df,
          new_rows, written, store, gridRows, header, nombre, precio, call, loop, submitted, fetched, raisedScrapers,
          storeAtStart, appended, capacityHit, capped, dropped, prevRun>>

scrapeVars == <<ts, rows, pending, running, finished, gi>>
syncVars == <<df_all, prev_df, new_rows, written>>
storeVars == <<store, gridRows, header>>
textVars == <<nombre, precio, call, loop>>
histVars == <<submitted, fetched, raisedScrapers, storeAtStart, appended, capacityHit, capped,
              dropped, prevRun>>

\* The monthly book as _get_or_create_monthly_spreadsheet creates it (lines
\* 87-88): the header row and one empty row.  All runs fall in one month.
InitWith(hdr) ==
    /\ now = 0
    /\ runs = 0
    /\ pc = "idle"
    /\ outcome = "none"
    /\ si = 1
    /\ ts = NoFecha
    /\ rows = <<>>
    /\ pending = {}
    /\ running = {}
    /\ finished = {}
    /\ gi = 1
    /\ all_rows = <<>>
    /\ df_all = <<>>
    /\ prev_df = <<>>
    /\ new_rows = <<>>
    /\ written = 0
    /\ store = <<>>
    /\ gridRows = 2
    /\ header = hdr
    /\ submitted = {}
    /\ fetched = {}
    /\ raisedScrapers = {}
    /\ storeAtStart = <<>>
    /\ appended = <<>>
    /\ capacityHit = FALSE
    /\ capped = FALSE
    /\ dropped = 0
    /\ prevRun = [fresh |-> <<>>, outcome |-> "none"]

\* no text function is applied on its own
NoInput == nombre = <<>> /\ precio = 0 /\ call = NoCall /\ loop = NoLoop

Init == InitWith(REQUIRED_COLUMNS) /\ NoInput

(***************************************************************************)
(* The clock and the scrapers                                              *)
(***************************************************************************)
\* time passes between invocations and between two scrapers
Tick ==
    /\ pc \in {"idle", "loop"}
    /\ now < MaxClock
    /\ now' = now + 1
    /\ UNCHANGED <<runs, pc, outcome, si, all_rows>>
    /\ UNCHANGED <<scrapeVars, syncVars, storeVars, histVars>>
    /\ UNCHANGED textVars

\* main() is called, line 1014
StartMain ==
    /\ pc = "idle"
    /\ runs < MaxRuns
    /\ runs' = runs + 1
    /\ pc' = "loop"
    /\ outcome' = "running"
    /\ si' = 1
    /\ all_rows' = <<>>
    /\ df_all' = <<>>
    /\ prev_df' = <<>>
    /\ new_rows' = <<>>
    /\ written' = 0
    /\ submitted' = {}
    /\ fetched' = {}
    /\ raisedScrapers' = {}
    /\ storeAtStart' = store
    /\ appended' = <<>>
    /\ capacityHit' = FALSE
    /\ capped' = FALSE
    /\ dropped' = 0
    /\ prevRun' = [fresh |-> df_all, outcome |-> outcome]
    /\ UNCHANGED <<now, scrapeVars, storeVars>>
    /\ UNCHANGED textVars

\* HtmlSiteScraper.scrape, lines 513-521: the timestamp is taken, the category
\* list is obtained (it may be empty) and one task per category is submitted
HtmlBegin ==
    /\ pc = "loop"
    /\ si <= Len(SCRAPERS)
    /\ IsHtml(SCRAPERS[si])
    /\ \E urls \in {{}, Urls} :
          /\ pending' = urls
          /\ running' = urls
          /\ submitted' = submitted \cup {<<SCRAPERS[si], u>> : u \in urls}
    /\ ts' = strftime(now)
    /\ rows' = <<>>
    /\ finished' = {}
    /\ pc' = "html"
    /\ UNCHANGED <<now, runs, outcome, si, gi, all_rows, fetched, raisedScrapers,
                   storeAtStart, appended, capacityHit, capped, dropped, prevRun>>
    /\ UNCHANGED <<syncVars, storeVars>>
    /\ UNCHANGED textVars

\* a loop that gives up on the remaining futures once one raised
pending_after_abort(pend, u, raised) == IF raised THEN {} ELSE pend \ {u}

\* the futures still to be yielded after one was handled, lines 522-530
pending_after(pend, u, raised) == pend \ {u}

\* a worker of the pool ends its call of parse_category (line 521): the result,
\* or the exception, is kept in its future
WorkerDone(results) ==
    /\ \E u \in running, res \in results :
          /\ running' = running \ {u}
          /\ finished' = finished \cup {<<u, res>>}
    /\ UNCHANGED <<now, runs, pc, outcome, si, ts, rows, pending, gi, all_rows>>
    /\ UNCHANGED <<syncVars, storeVars, histVars>>
    /\ UNCHANGED textVars

\* lines 522-530: as_completed yields a finished task, in the order they finish
\* or any other
HtmlCompleted ==
    /\ pc = "html"
    /\ \E fut \in finished :
          LET u == fut[1]
              res == fut[2]
              out == IF res.status = "ok"
                     THEN html_parse_category(SCRAPERS[si], res.items)
                     ELSE <<>>
              contrib == IF res.status = "raised" THEN <<>> ELSE html_collect(out, ts)
          IN /\ rows' = rows \o contrib
             /\ pending' = pending_after(pending, u, res.status = "raised")
             /\ finished' = finished \ {fut}
             /\ fetched' = fetched \cup
                    {[sup |-> SCRAPERS[si], cat |-> u, status |-> res.status, contrib |-> contrib]}
    /\ UNCHANGED <<now, runs, pc, outcome, si, ts, running, gi, all_rows, submitted,
                   raisedScrapers, storeAtStart, appended, capacityHit, capped, dropped, prevRun>>
    /\ UNCHANGED <<syncVars, storeVars>>
    /\ UNCHANGED textVars

\* BiggieScraper.scrape, lines 772-775
BiggieBegin ==
    /\ pc = "loop"
    /\ si <= Len(SCRAPERS)
    /\ ~IsHtml(SCRAPERS[si])
    /\ ts' = strftime(now)
    /\ rows' = <<>>
    /\ gi' = 1
    /\ pc' = "biggie"
    /\ submitted' = submitted \cup {<<SCRAPERS[si], g>> : g \in DOMAIN GROUPS}
    /\ UNCHANGED <<now, runs, outcome, si, pending, running, finished, all_rows, fetched,
                   raisedScrapers,
                   storeAtStart, appended, capacityHit, capped, dropped, prevRun>>
    /\ UNCHANGED <<syncVars, storeVars>>
    /\ UNCHANGED textVars

\* the group handled after group g, lines 775-781
next_group(g, raised) == g + 1

\* how a group's fetch ended, and the stamped records it hands over (lines 777-781)
biggie_status(res) == IF res.raised THEN "raised" ELSE IF res.failed THEN "failed" ELSE "ok"
biggie_contrib(res, stamp) == IF res.raised THEN <<>> ELSE biggie_collect(res.out, stamp)

\* lines 775-781: the records of a group are added to rows
BiggieFetched(res) ==
    /\ rows' = rows \o biggie_contrib(res, ts)
    /\ gi' = next_group(gi, res.raised)
    /\ fetched' = fetched \cup
           {[sup |-> SCRAPERS[si], cat |-> gi, status |-> biggie_status(res),
             contrib |-> biggie_contrib(res, ts)]}

\* lines 775-781: one group is fetched page by page
BiggieGroup(scripts) ==
    /\ pc = "biggie"
    /\ gi <= Len(GROUPS)
    /\ \E script \in scripts[gi] : BiggieFetched(biggie_parse_category(GROUPS[gi], script))
    /\ UNCHANGED <<now, runs, pc, outcome, si, ts, pending, running, finished, all_rows,
                   submitted,
                   raisedScrapers, storeAtStart, appended, capacityHit, capped, dropped, prevRun>>
    /\ UNCHANGED <<syncVars, storeVars>>
    /\ UNCHANGED textVars

\* a pool that is left without waiting for its workers
exit_no_wait(run) == TRUE

\* the `with ThreadPoolExecutor` block of line 520 is left only when every
\* worker of the pool has ended
exit_waits(run) == run = {}

\* scrape() has ended: its locals no longer exist
ScrapeFrameGone ==
    /\ ts' = NoFecha
    /\ rows' = <<>>
    /\ pending' = {}
    /\ finished' = {}
    /\ gi' = 1

\* what main holds after a scraper returned its rows, lines 1023-1026
extended(all, rws) == all \o rws

\* scrape() returns and main extends all_rows
ScrapeReturn ==
    /\ \/ pc = "html" /\ pending = {} /\ exit_waits(running)
       \/ pc = "biggie" /\ gi > Len(GROUPS)
    /\ all_rows' = extended(all_rows, rows)
    /\ si' = si + 1
    /\ pc' = "loop"
    /\ ScrapeFrameGone
    /\ UNCHANGED <<now, runs, outcome, running>>
    /\ UNCHANGED <<syncVars, storeVars, histVars>>
    /\ UNCHANGED textVars

\* what main holds after a scraper raised, lines 1029-1030
after_scraper_error(all) == all

\* the constructor or scrape() raises: main logs it and goes on, lines 1029-1030
ScrapeRaises ==
    /\ pc \in {"html", "biggie"}
    /\ exit_waits(running)
    /\ all_rows' = after_scraper_error(all_rows)
    /\ raisedScrapers' = raisedScrapers \cup {SCRAPERS[si]}
    /\ si' = si + 1
    /\ pc' = "loop"
    /\ ScrapeFrameGone
    /\ UNCHANGED <<now, runs, outcome, running, submitted, fetched, storeAtStart, appended,
                   capacityHit, capped, dropped, prevRun>>
    /\ UNCHANGED <<syncVars, storeVars>>
    /\ UNCHANGED textVars

\* lines 1032-1043: nothing scraped ends the run; otherwise the frame is built
\* (all_rows is not read again and is dropped from the state here)
Consolidate ==
    /\ pc = "loop"
    /\ si > Len(SCRAPERS)
    /\ IF all_rows = <<>>
       THEN /\ pc' = "idle"
            /\ outcome' = "no_data"
            /\ df_all' = df_all
       ELSE /\ pc' = "read"
            /\ outcome' = outcome
            /\ df_all' = consolidate(all_rows)
    /\ all_rows' = <<>>
    /\ submitted' = {}
    /\ fetched' = {}
    /\ raisedScrapers' = {}
    /\ dropped' = Len(all_rows) - Len(SelectSeq(all_rows, PriceKept))
    /\ UNCHANGED <<now, runs, si, prev_df, new_rows, written, storeAtStart,
                   appended, capacityHit, capped, prevRun>>
    /\ UNCHANGED <<scrapeVars, storeVars>>
    /\ UNCHANGED textVars

(***************************************************************************)
(* The sync: the try block of main(), lines 1053-1110                      *)
(***************************************************************************)
EndRun(how) ==
    /\ pc' = "idle"
    /\ outcome' = how

\* how main() ends when an exception of the given class is raised in the try
\* block before new_rows is bound: an APIError or HttpError is logged (lines
\* 1093-1096); any other exception is logged and the handler's own code then
\* raises on the unbound name (lines 1097-1102)
early_failure(kind) == IF kind = "APIError" THEN "logged" ELSE "raised"

\* lines 1059-1072 with the header main holds: both frames are aligned to it
\* and the new rows are found; without a key column line 1070 raises KeyError,
\* an exception of the class early_failure calls "Other"
Compared(hdr) ==
    IF key_cols_present(hdr)
    THEN /\ prev_df' = align_df_columns(store, hdr)
         /\ df_all' = align_df_columns(df_all, hdr)
         /\ new_rows' = compute_new_rows(df_all', prev_df')
         /\ written' = 0
         /\ pc' = IF new_rows' = <<>> THEN "nonew" ELSE "append"
         /\ outcome' = outcome
    ELSE /\ EndRun(early_failure("Other"))
         /\ UNCHANGED syncVars

\* lines 1054-1072: the book is opened, its header completed, the rows are read
\* and the new rows found
SyncRead ==
    /\ pc = "read"
    /\ \E can_add \in BOOLEAN :
          /\ header' = ensure_required_columns(header, can_add).sheet
          /\ capped' = (missing_columns(header) # <<>> /\ ~can_add)
          /\ Compared(ensure_required_columns(header, can_add).header)
    /\ UNCHANGED <<now, runs, si, all_rows, store, gridRows, submitted, fetched,
                   raisedScrapers, storeAtStart, appended, capacityHit, dropped, prevRun>>
    /\ UNCHANGED scrapeVars
    /\ UNCHANGED textVars

\* a request of lines 1054-1058 fails
SyncReadFails ==
    /\ pc = "read"
    /\ \E kind \in {"APIError", "Other"} : EndRun(early_failure(kind))
    /\ UNCHANGED <<now, runs, si, all_rows>>
    /\ UNCHANGED <<scrapeVars, syncVars, storeVars, histVars>>
    /\ UNCHANGED textVars

\* _shrink_grid, lines 888-893: the resize is attempted; an exception is swallowed
Shrink(n, ok) ==
    IF ok /\ Max(1, n) <= MaxGridRows
    THEN /\ store' = resized(store, Max(1, n))
         /\ gridRows' = Max(1, n)
    ELSE UNCHANGED <<store, gridRows>>

\* lines 1074-1078: nothing new
NoNewRows ==
    /\ pc = "nonew"
    /\ \E ok \in BOOLEAN : Shrink(nrows_no_new(prev_df), ok)
    /\ EndRun("no_new")
    /\ UNCHANGED <<now, runs, si, all_rows, header>>
    /\ UNCHANGED <<scrapeVars, syncVars, histVars>>
    /\ UNCHANGED textVars

\* ws.append_rows of one chunk: the sheet grows by the chunk
AppendToSheet(chunk) ==
    /\ store' = store \o sheet_values(chunk)
    /\ gridRows' = Max(gridRows, 1 + Len(store) + Len(chunk))
    /\ appended' = appended \o sheet_values(chunk)
    /\ written' = written + Len(chunk)

\* does the chunk take the sheet over the cell limit
OverLimit(chunk) == 1 + Len(store) + Len(chunk) > MaxGridRows

\* how main() ends when ws.append_rows raises an APIError in the try block:
\* line 1093 catches it, whatever its message
after_api_error(limit) == "logged"

\* line 1085, one request of _append_rows
AppendChunk ==
    /\ pc = "append"
    /\ written < Len(new_rows)
    /\ LET chunk == chunk_of(new_rows, written)
       IN IF OverLimit(chunk)
          THEN /\ EndRun(after_api_error(TRUE))
               /\ capacityHit' = TRUE
               /\ UNCHANGED <<store, gridRows, appended, written>>
          ELSE /\ AppendToSheet(chunk)
               /\ UNCHANGED <<pc, outcome, capacityHit>>
    /\ UNCHANGED <<now, runs, si, all_rows, df_all, prev_df, new_rows, header, submitted,
                   fetched, raisedScrapers, storeAtStart, capped, dropped, prevRun>>
    /\ UNCHANGED scrapeVars
    /\ UNCHANGED textVars

\* line 1085, a request of _append_rows fails for another reason: an APIError
\* is logged (line 1093); any other exception enters the handler of line 1097,
\* whose code calls _append_rows again from the first row
AppendFails ==
    /\ pc = "append"
    /\ written < Len(new_rows)
    /\ \E kind \in {"APIError", "Other"} :
          IF kind = "APIError"
          THEN EndRun(after_api_error(FALSE)) /\ written' = written
          ELSE pc' = "handler" /\ outcome' = outcome /\ written' = 0
    /\ UNCHANGED <<now, runs, si, all_rows, df_all, prev_df, new_rows>>
    /\ UNCHANGED <<scrapeVars, storeVars, histVars>>
    /\ UNCHANGED textVars

\* lines 1087-1091: all chunks are in, the grid is compacted
Compact ==
    /\ pc = "append"
    /\ written = Len(new_rows)
    /\ \E ok \in BOOLEAN : Shrink(total_rows(prev_df, new_rows), ok)
    /\ EndRun("completed")
    /\ UNCHANGED <<now, runs, si, all_rows, header>>
    /\ UNCHANGED <<scrapeVars, syncVars, histVars>>
    /\ UNCHANGED textVars

\* line 1104, one request of the handler's _append_rows; an exception here
\* leaves main()
HandlerAppendChunk ==
    /\ pc = "handler"
    /\ written < Len(new_rows)
    /\ LET chunk == chunk_of(new_rows, written)
       IN IF OverLimit(chunk)
          THEN /\ EndRun("raised")
               /\ capacityHit' = TRUE
               /\ UNCHANGED <<store, gridRows, appended, written>>
          ELSE /\ AppendToSheet(chunk)
               /\ UNCHANGED <<pc, outcome, capacityHit>>
    /\ UNCHANGED <<now, runs, si, all_rows, df_all, prev_df, new_rows, header, submitted,
                   fetched, raisedScrapers, storeAtStart, capped, dropped, prevRun>>
    /\ UNCHANGED scrapeVars
    /\ UNCHANGED textVars

\* line 1104, a request of the handler's _append_rows fails
HandlerAppendFails ==
    /\ pc = "handler"
    /\ written < Len(new_rows)
    /\ EndRun("raised")
    /\ UNCHANGED <<now, runs, si, all_rows>>
    /\ UNCHANGED <<scrapeVars, syncVars, storeVars, histVars>>
    /\ UNCHANGED textVars

\* lines 1106-1110: the handler compacts the grid and main() returns
HandlerCompact ==
    /\ pc = "handler"
    /\ written = Len(new_rows)
    /\ \E ok \in BOOLEAN : Shrink(total_rows(prev_df, new_rows), ok)
    /\ EndRun("handled")
    /\ UNCHANGED <<now, runs, si, all_rows, header>>
    /\ UNCHANGED <<scrapeVars, syncVars, histVars>>
    /\ UNCHANGED textVars

(***************************************************************************)
(* Specifications                                                          *)
(***************************************************************************)
Scraping(results, scripts) ==
    \/ StartMain
    \/ HtmlBegin
    \/ WorkerDone(results)
    \/ HtmlCompleted
    \/ BiggieBegin
    \/ BiggieGroup(scripts)
    \/ ScrapeReturn
    \/ ScrapeRaises
    \/ Consolidate

Sync ==
    \/ SyncRead
    \/ SyncReadFails
    \/ NoNewRows
    \/ AppendChunk
    \/ AppendFails
    \/ Compact
    \/ HandlerAppendChunk
    \/ HandlerAppendFails
    \/ HandlerCompact

\* the whole pipeline, run after run
Next == Tick \/ Scraping(HtmlResultsSync, BiggieScriptsSync) \/ Sync
Spec == Init /\ [][Next]_vars

\* the collection phase alone, over the wide inputs
NextScrape == Scraping(HtmlResultsWide, BiggieScriptsWide)
SpecScrape == Init /\ [][NextScrape]_vars

\* the first rows a sheet of this month may have when the program finds it: the
\* canonical one, one without Subgrupo, one without Subgrupo and FechaConsulta
FoundHeaders ==
    {REQUIRED_COLUMNS,
     <<"Supermercado", "Producto", "Precio", "Grupo", "FechaConsulta">>,
     <<"Supermercado", "Producto", "Precio", "Grupo">>}

\* the pipeline over a sheet whose header has drifted from the canonical one
InitSchema == (\E hdr \in FoundHeaders : InitWith(hdr)) /\ NoInput
NextSchema == Tick \/ Scraping(HtmlResultsSync, BiggieScriptsSync) \/ Sync
SpecSchema == InitSchema /\ [][NextSchema]_vars

\* one text function is applied to the name and the price drawn
pipelineVars == <<now, runs, pc, outcome, si, all_rows, scrapeVars, syncVars, storeVars, histVars>>

ParseUnidadCorr ==
    /\ call = NoCall
    /\ call' = Called("parse_unidad_corr", <<nombre>>, parse_unidad_corr(nombre))
    /\ UNCHANGED <<nombre, precio, loop, pipelineVars>>

PrecioComparable ==
    /\ call = NoCall
    /\ \E c \in Cantidades, u \in Familias :
          call' = Called("precio_comparable", <<precio, c, u>>, precio_comparable(precio, c, u))
    /\ UNCHANGED <<nombre, precio, loop, pipelineVars>>

ClassifyGroupSubgroup ==
    /\ call = NoCall
    /\ call' = Called("classify_group_subgroup", <<nombre>>, classify_group_subgroup(nombre))
    /\ UNCHANGED <<nombre, precio, loop, pipelineVars>>

ClasificaProducto ==
    /\ call = NoCall
    /\ call' = Called("clasifica_producto", <<nombre>>, clasifica_producto(nombre))
    /\ UNCHANGED <<nombre, precio, loop, pipelineVars>>

AssembleRow ==
    /\ call = NoCall
    /\ call' = Called("_assemble_row", <<nombre, precio>>,
                      assemble_full_row("superseis", nombre, precio))
    /\ UNCHANGED <<nombre, precio, loop, pipelineVars>>

InitText ==
    /\ InitWith(REQUIRED_COLUMNS)
    /\ nombre \in TextNames
    /\ precio \in TextPrices
    /\ call = NoCall
    /\ loop = NoLoop

NextText ==
    \/ ParseUnidadCorr
    \/ PrecioComparable
    \/ ClassifyGroupSubgroup
    \/ ClasificaProducto
    \/ AssembleRow

SpecText == InitText /\ [][NextText]_vars

(***************************************************************************)
(* BiggieScraper.parse_category request by request, lines 726-769          *)
(***************************************************************************)
\* what the function returns when a request fails: line 739 leaves the loop
\* and line 769 returns the list; the mutation loses what was fetched
out_lost(out) == <<>>
out_on_failure(out) == out

\* line 766: was that the last page
last_page(next_skip, count) == next_skip >= count

\* lines 731-739: the request or the decoding of its answer raises
PageFails ==
    /\ loop.pc = "request"
    /\ loop' = [loop EXCEPT !.pc = "returned", !.js = ApiFail,
                            !.asked = Append(@, loop.skip),
                            !.out = out_on_failure(loop.out)]
    /\ UNCHANGED <<nombre, precio, call, pipelineVars>>

\* lines 741-763 on a JSON answer that is no object with a list of objects:
\* the exception is raised outside the try and leaves parse_category
PageGarbled ==
    /\ loop.pc = "request"
    /\ loop' = [loop EXCEPT !.pc = "raised", !.js = ApiGarbled,
                            !.asked = Append(@, loop.skip)]
    /\ UNCHANGED <<nombre, precio, call, pipelineVars>>

\* lines 731-767: a page is answered, its records are added, skip advances and
\* the loop ends when skip has reached the count of this answer
PageAnswered ==
    /\ loop.pc = "request"
    /\ \E items \in PageItems, count \in PageCounts :
          loop' = [loop EXCEPT !.js = ApiOk(items, count),
                               !.asked = Append(@, loop.skip),
                               !.pages = Append(@, items),
                               !.out = @ \o biggie_items(loop.grp, items),
                               !.skip = @ + Take,
                               !.pc = IF last_page(loop.skip + Take, count)
                                      THEN "returned" ELSE "request"]
    /\ UNCHANGED <<nombre, precio, call, pipelineVars>>

\* parse_category is called for one group of GROUPS
InitPages ==
    /\ InitWith(REQUIRED_COLUMNS)
    /\ nombre = <<>> /\ precio = 0 /\ call = NoCall
    /\ \E g \in DOMAIN GROUPS : loop = StartLoop(GROUPS[g])

NextPages == PageAnswered \/ PageFails \/ PageGarbled

\* the loop is sequential code and every request ends, with an answer or an
\* exception, within REQ_TIMEOUT: a step that can be taken is taken
SpecPages == InitPages /\ [][NextPages]_vars /\ WF_vars(NextPages)

(***************************************************************************)
(* Properties of the sync                                                  *)
(***************************************************************************)
\* the run has read the store (or ended)
SyncStarted == pc \in {"nonew", "append", "handler", "idle"}

\* the sync of the previous run went through
PrevSyncDone == prevRun.outcome \in {"completed", "no_new"}

\* this run is the second of two runs that assembled the same rows
SameRowsAgain == runs > 1 /\ PrevSyncDone /\ df_all # <<>> /\ prevRun.fresh = df_all

\* C1: when the sync is run a second time with the same freshly assembled rows
\* against the store the first run left, the second run appends no row and
\* leaves the store's data rows as they were.
C1_SecondRunAddsNothing ==
    (SyncStarted /\ SameRowsAgain) => (appended = <<>> /\ store = storeAtStart)

\* C2: in every state of the store, whatever runs came before and however they
\* ended, no two stored rows have the same (Supermercado, Producto,
\* FechaConsulta).
C2_KeysUnique ==
    \A i, j \in DOMAIN store : KeyOf(store[i]) = KeyOf(store[j]) => i = j

\* the key of a consolidated row as the sheet holds it
StoredKey(r) == <<r.Supermercado, r.Producto, strftime(r.FechaConsulta)>>

\* the consolidated rows whose key the store did not hold when the run started
Difference == SelectSeq(df_all, LAMBDA r : StoredKey(r) \notin prev_keys(storeAtStart))

\* C3: a run whose sync succeeds appends exactly the consolidated rows whose
\* key was not among the rows of the store at the start of the run: none whose
\* key exists, and all whose key is new.
C3_AppendedIsDifference ==
    (pc = "idle" /\ outcome \in {"completed", "no_new"})
        => appended = sheet_values(Difference)

\* C4: every data row the store held before a run is still there, unchanged
\* and at its place, at every moment of the run and after it, the resize of
\* _shrink_grid included.
C4_StoredRowsKept ==
    /\ Len(storeAtStart) <= Len(store)
    /\ SubSeq(store, 1, Len(storeAtStart)) = storeAtStart

\* a run over a non-empty store has ended with a resize that deleted rows
C4_ResizeDeletedRows ==
    /\ pc = "idle"
    /\ outcome \in {"handled", "completed", "no_new"}
    /\ storeAtStart # <<>>
    /\ Len(store) < Len(storeAtStart) + Len(appended)
    /\ gridRows = Len(store) + 1

\* the store holds some of the run's new rows and lacks others
PartlyWritten ==
    /\ appended # <<>>
    /\ \E i \in DOMAIN new_rows : sheet_values(new_rows)[i] \notin Range(store)

\* C5: a run that ends with only part of its new rows in the store ends with
\* the failure raised to the caller of main().
C5_PartialWriteIsFatal ==
    (pc = "idle" /\ PartlyWritten) => outcome = "raised"

\* C6: a run in which a store request failed on the cell limit does not end
\* as a logged error: the error reaches the caller of main(), or the branch
\* that creates a new book runs.
C6_CapacitySurfaced ==
    (pc = "idle" /\ capacityHit) => outcome \in {"raised", "partitioned"}

(***************************************************************************)
(* Properties of the collection                                            *)
(***************************************************************************)
\* every scraper has had its turn and main is about to consolidate
AllScraped == pc = "loop" /\ si > Len(SCRAPERS)

Occurrences(seq, r) == Cardinality({i \in DOMAIN seq : seq[i] = r})

\* how often the categories fs handed over the row r
RECURSIVE HandedOver(_, _)
HandedOver(fs, r) ==
    IF fs = {} THEN 0
    ELSE LET f == CHOOSE x \in fs : TRUE
         IN Occurrences(f.contrib, r) + HandedOver(fs \ {f}, r)

CategoriesOf(sup) == {f \in fetched : f.sup = sup}

\* a retailer whose scrape() raised gives nothing; any other retailer had
\* every submitted category handled and gives what its categories handed over
RetailersIsolated ==
    \A n \in DOMAIN SCRAPERS :
        LET sup == SCRAPERS[n]
        IN IF sup \in raisedScrapers
           THEN \A i \in DOMAIN all_rows : all_rows[i].Supermercado # sup
           ELSE /\ {<<f.sup, f.cat>> : f \in CategoriesOf(sup)}
                       = {c \in submitted : c[1] = sup}
                /\ \A f \in CategoriesOf(sup) : \A k \in DOMAIN f.contrib :
                       Occurrences(all_rows, f.contrib[k])
                           = HandedOver(CategoriesOf(sup), f.contrib[k])
                /\ \A i \in DOMAIN all_rows :
                       all_rows[i].Supermercado = sup
                           => \E f \in CategoriesOf(sup) : all_rows[i] \in Range(f.contrib)

C8_NoNonPositivePriceStored ==
    /\ \A i \in DOMAIN store : store[i].Precio > 0
    /\ \A i \in DOMAIN appended : appended[i].Precio > 0

\* a run whose consolidation removed a row without a price has appended rows
C8_UnpricedRowDropped ==
    /\ pc = "idle"
    /\ outcome = "completed"
    /\ dropped > 0
    /\ appended # <<>>

\* the product names of the listings that carry a bundle or promo marker
ExcludedProducts == {upperTable[l] : l \in {x \in AllListings : excludedTable[x]}}

NoExcluded(seq) == \A i \in DOMAIN seq : seq[i].Producto \notin ExcludedProducts

\* C9: no record comes out of any retailer's assembly for a product name that
\* carries a bundle or promo marker, taxonomy keywords or not.
C9_NoExcludedRecord ==
    NoExcluded(rows) /\ NoExcluded(all_rows) /\ NoExcluded(df_all)

HasGrupo(seq) == \A i \in DOMAIN seq : seq[i].Grupo # <<>>

\* C10: no record handed to the sync has an empty Grupo, whichever retailer
\* assembled it.
C10_NoEmptyGrupo ==
    HasGrupo(rows) /\ HasGrupo(all_rows) /\ HasGrupo(df_all)

\* a Biggie item the taxonomy does not know reached the consolidated frame
\* under the group of its API category
C10_FallbackGroupUsed ==
    /\ pc = "read"
    /\ \E i \in DOMAIN df_all :
          /\ df_all[i].Supermercado = "biggie"
          /\ df_all[i].Producto = upperTable[bJabon]
          /\ df_all[i].Grupo = gHuevos

\* the product names of the listings that classify_group_subgroup gives no group
UnclassifiedProducts ==
    {upperTable[l] : l \in {x \in AllListings : classifyTable[x][1] = <<>>}}

NoUnclassified(seq) == \A i \in DOMAIN seq : seq[i].Producto \notin UnclassifiedProducts

\* C11: a listing whose name classify_group_subgroup gives no group produces
\* no record, whichever retailer's path assembles it.
C11_MissGivesNoRecord ==
    NoUnclassified(rows) /\ NoUnclassified(all_rows) /\ NoUnclassified(df_all)

OneFecha(seq) == \A i, j \in DOMAIN seq : seq[i].FechaConsulta = seq[j].FechaConsulta

\* C12: all the records one run of main() collects carry the same
\* FechaConsulta.
C12_OneTimestamp ==
    OneFecha(all_rows) /\ OneFecha(df_all)

\* the categories of a retailer in the order scrape() submits them
CategoriesInOrder(sup) == IF IsHtml(sup) THEN <<"u1", "u2">> ELSE <<1, 2>>

\* what the category handed over (nothing if it was never handled)
ContribOf(sup, cat) ==
    IF \E f \in fetched : f.sup = sup /\ f.cat = cat
    THEN (CHOOSE f \in fetched : f.sup = sup /\ f.cat = cat).contrib
    ELSE <<>>

\* the rows main would hold had every category finished in submission order
RowsInSubmissionOrder ==
    Concat([n \in DOMAIN SCRAPERS |->
              IF SCRAPERS[n] \in raisedScrapers THEN <<>>
              ELSE Concat([k \in DOMAIN CategoriesInOrder(SCRAPERS[n]) |->
                             ContribOf(SCRAPERS[n], CategoriesInOrder(SCRAPERS[n])[k])])])

\* C13: with the same result for every category, the rows a run consolidates
\* (and so the rows it appends) are the same whatever the order in which the
\* category tasks of a retailer finish.
C13_OrderIndependent ==
    AllScraped => Range(consolidate(all_rows)) = Range(consolidate(RowsInSubmissionOrder))

\* the steps of main that read or write the store, lines 1053-1131
StoreSteps == {"read", "nonew", "append", "handler"}

\* a step that reads or writes the store
StoreTouched == store' # store \/ gridRows' # gridRows \/ prev_df' # prev_df

\* C14: no store operation (read, append, resize) occurs while a category
\* worker of any retailer is still running, and the row list of a retailer is
\* written by the orchestrating thread only, never by a step of a worker.
C14_StoreAfterWorkers ==
    /\ [](pc \in StoreSteps => running = {})
    /\ [][StoreTouched => running = {} /\ running' = {}]_vars
    /\ [][rows' # rows => running' = running]_vars

\* a worker still runs while the orchestrating thread has merged the records
\* of another one, over a store that holds the rows of an earlier run
C14_MergedWhileWorkerRuns == runs = 2 /\ running # {} /\ rows # <<>> /\ store # <<>>

\* the run is about to append its first row, and that request is within the limit
FirstAppendDue == pc = "append" /\ written = 0 /\ ~OverLimit(chunk_of(new_rows, 0))

\* C15: in every sync run that appends rows, the rows the grid holds beyond
\* the used ones are shrunk away before the first row of the run is appended.
C15_CompactedBeforeAppend == FirstAppendDue => gridRows = 1 + Len(store)

\* C16: when the header of the sheet lacks canonical columns and they cannot
\* be added, the run goes on with the header found and main() does not raise,
\* whichever the columns left out are: the step that reads the sheet leads to
\* the comparison of the keys.
C16_CappedRunGoesOn == [][(pc = "read" /\ capped') => pc' \in {"nonew", "append"}]_vars

\* the normalized text of the name drawn
NombreText == normalize_text(nombre)

\* the match of the fraction pattern in the name drawn
NombreFraction == fraction_search(NombreText)

\* C17: for every name that contains "<num>/<den> <unit>" with a unit of the
\* kg or litre family, parse_unidad_corr returns the quantity (num/den) x 1000
\* with the family GR or ML, and the label made of both ("1/2 kg": 500, "500GR").
C17_FractionRuleApplied ==
    (call.fn = "parse_unidad_corr" /\ NombreFraction.ok)
        => call.value = sized(fraction_total(NombreFraction), norm_unit_symbol(NombreFraction.unit))

\* price x 1000 / quantity, or price / quantity, as a reduced fraction
PerThousand(p, c) == SomeRatio(Ratio(p * 1000, c.v))
PerUnit(p, c) == SomeRatio(Ratio(p, c.v))

\* the comparable price of a price, a quantity and a family of the four
ComparableOf(p, c, u) ==
    IF ~c.some \/ c.v <= 0 THEN NoneRatio
    ELSE IF u \in {fGR, fML} THEN PerThousand(p, c) ELSE PerUnit(p, c)

\* the quantity is null or not positive, or the family is one of the four
ComparableCase(c, u) == ~c.some \/ c.v <= 0 \/ u \in {fGR, fML, fUNID, fPAQ}

\* what parse_unidad_corr gives for the name drawn
NombreParsed == parse_unidad_corr(nombre)

\* C18: precio_comparable is price x 1000 / quantity for the families GR and
\* ML, price / quantity for UNID and PAQ, and null when the quantity is null
\* or not positive; the Precio_comparable of an assembled record is that value
\* for the quantity and the family parse_unidad_corr returned for the name.
C18_ComparablePrice ==
    /\ (call.fn = "precio_comparable" /\ ComparableCase(call.args[2], call.args[3]))
          => call.value = ComparableOf(call.args[1], call.args[2], call.args[3])
    /\ (call.fn = "_assemble_row" /\ call.value # <<>>)
          => /\ call.value[1].Cantidad = cell_of(Second(NombreParsed))
             /\ call.value[1].Unidades_Separado = Third(NombreParsed)
             /\ ComparableCase(Second(NombreParsed), Third(NombreParsed))
             /\ call.value[1].Precio_comparable =
                    cell_of(ComparableOf(precio, Second(NombreParsed), Third(NombreParsed)))

\* price 15000 for 500 GR gives 30000
C18_PricePerKilo ==
    call = Called("precio_comparable", <<1500000, Some(50000), fGR>>, SomeRatio(<<30000, 1>>))

\* the scores of the pairs of TAXONOMY for the name drawn
NombreScores == [i \in DOMAIN TAXONOMY |-> PairScore(TAXONOMY[i], NombreText)]

\* the pairs with the highest score, when a keyword occurs at all
TopPairs ==
    {i \in DOMAIN TAXONOMY :
        NombreScores[i] > 0 /\ \A j \in DOMAIN TAXONOMY : NombreScores[j] <= NombreScores[i]}

\* the first declared of the pairs with the highest score; ("", "") without one
FirstTopPair ==
    IF TopPairs = {} THEN << <<>>, <<>> >>
    ELSE LET i == CHOOSE k \in TopPairs : \A j \in TopPairs : k <= j
         IN <<TAXONOMY[i].g, TAXONOMY[i].s>>

\* C19: classify_group_subgroup returns the pair with the highest score and,
\* when several pairs share it, the one declared first in TAXONOMY.
C19_FirstDeclaredWinsTies == call.fn = "classify_group_subgroup" => call.value = FirstTopPair

\* a name for which two pairs share the highest score has been classified
C19_TieClassified ==
    /\ call.fn = "classify_group_subgroup"
    /\ Cardinality(TopPairs) >= 2
    /\ call.value = FirstTopPair

\* the rules whose condition holds for the name drawn
FiringRules == {i \in DOMAIN FRESH_RULES : RuleFires(FRESH_RULES[i], NombreText)}

\* the tag of the first of them in rule order, the empty tag without one
FirstRuleTag ==
    IF FiringRules = {} THEN <<>>
    ELSE FRESH_RULES[CHOOSE k \in FiringRules : \A j \in FiringRules : k <= j].tag

\* C20: clasifica_producto returns the tag of the first rule, in rule order,
\* whose keyword occurs and whose exclusion regex has no match, and the empty
\* tag without one; the tag of an assembled record is that of its name alone,
\* whatever group and subgroup the record has.
C20_FirstMatchTag ==
    /\ call.fn = "clasifica_producto" => call.value = FirstRuleTag
    /\ (call.fn = "_assemble_row" /\ call.value # <<>>)
          => call.value[1].ClasificaProducto = FirstRuleTag

\* "JUGO DE TOMATE 1L" is a record of Verduras / Tomate with the empty tag
C20_JuiceUntagged ==
    /\ call.fn = "_assemble_row"
    /\ nombre = JoinName(<<"J","U","G","O"," ","D","E"," ","T","O","M","A","T","E">>, <<"1","L">>)
    /\ call.value # <<>>
    /\ call.value[1].Grupo = gVerduras
    /\ call.value[1].Subgrupo = sTomate
    /\ call.value[1].ClasificaProducto = <<>>

\* the values _append_rows writes for the new rows of the run
NewValues == sheet_values(new_rows)

\* C21: within one run of main() no row of new_rows is written to the store
\* twice, whichever requests fail and whichever handlers run: the run has
\* appended each value at most as often as new_rows holds it.
C21_AppendedAtMostOnce ==
    \A i \in DOMAIN appended :
        Occurrences(appended, appended[i]) <= Occurrences(NewValues, appended[i])

\* the records of the pages answered so far
PagesFetched == Concat([i \in DOMAIN loop.pages |-> biggie_items(loop.grp, loop.pages[i])])

\* the requests made asked for skip = 0, TAKE, 2*TAKE, ..., each once
AskedInOrder == \A i \in DOMAIN loop.asked : loop.asked[i] = (i - 1) * Take

\* the loop goes on only after an answer whose count skip has not reached
StopsWhenDue ==
    (loop.pc = "request" /\ loop.asked # <<>>)
        => (loop.js.kind = "ok" /\ loop.skip < loop.js.count)

\* after a failed request the function has returned what the pages gave
FailureReturns ==
    loop.js.kind = "fail" => (loop.pc = "returned" /\ loop.out = PagesFetched)

\* C22: the pagination loop of parse_category ends for every sequence of
\* answers that report a count; it asks for skip = 0, TAKE, 2*TAKE, ... each
\* at most once, stops as soon as skip >= count or a request fails, and after
\* a failed request returns the records of the pages fetched, without raising.
C22_PaginationEnds ==
    /\ [](AskedInOrder /\ StopsWhenDue /\ FailureReturns)
    /\ <>(loop.pc \in {"returned", "raised"})

\* the second request failed and the records of the first page were returned
C22_FailedAfterPage ==
    /\ loop.pc = "returned"
    /\ loop.js.kind = "fail"
    /\ Len(loop.asked) = 2
    /\ loop.out # <<>>

====
